---- MODULE Spec2Model ----
(***************************************************************************)
(* Model of the ProDy atom selection engine (lib/prody/atomic/select.py):  *)
(* the Select instance, its evaluation of tokenised selection strings into *)
(* boolean masks, and the module-level selection macro registry.           *)
(*                                                                         *)
(* Conventions.  Arrays are sequences; the 0-based numpy index i is the    *)
(* position i+1 of the sequence.  Every Python value handled by the        *)
(* evaluator (word, number, range tuple, label tuple, array, None, raised  *)
(* exception) is a token record with the fields k, w, n, m, l.             *)
(***************************************************************************)
EXTENDS Integers, Sequences, FiniteSets, TLC

\* ------------------------------------------------------------------ bounds
NAtoms == 3
BigN == 22
MaxRadius == 2
MaxHops == 2
MaxNegative == 1
MaxNumber == 3
MaxStep == 2

\* ------------------------------------------------------- program constants
SmallQuery == 20

\* ------------------------------------------------------------ token values
Tok(k, w, n, m, l) == [k |-> k, w |-> w, n |-> n, m |-> m, l |-> l]
None == Tok("none", "", 0, <<>>, <<>>)
W(s) == Tok("w", s, 0, <<>>, <<>>)
\* the word s that is the digits followed by the character c, as '10A'
NumberedWord(s, digits, c) == Tok("w", s, 0, digits, <<c>>)
Num(i) == Tok("num", "", i, <<>>, <<>>)
\* the word of a number that is no integer, as '2.5': whole and tenths
Decimal(whole, tenths) == Tok("dec", "", whole, <<tenths>>, <<>>)
Bool(mask) == Tok("bool", "", 0, mask, <<>>)
Data(arr) == Tok("data", "", 0, arr, <<>>)
StrData(arr) == Tok("sdata", "", 0, arr, <<>>)
Idx(ss) == Tok("idx", "", 0, ss, <<>>)
Label(words) == Tok("label", "", 0, <<>>, words)
Range(start, stop, comp) == Tok("range", comp, 0, <<start, stop>>, <<>>)
RangeStep(start, stop, step) == Tok("range", "step", step, <<start, stop>>, <<>>)
Raise(exc, msg) == Tok("err", exc, 0, <<>>, <<msg>>)
SelectionError(msg) == Raise("SelectionError", msg)

IsErr(t) == t.k = "err"
IsWord(t, s) == t.k = "w" /\ t.w = s
HasDtype(t) == t.k \in {"bool", "data", "sdata", "f64", "fdata"}

\* --------------------------------------------------------- numpy helpers
zeros(n) == [i \in 1..n |-> FALSE]
ones(n) == [i \in 1..n |-> TRUE]
arange(n) == [i \in 1..n |-> i - 1]
invert(torf) == [i \in 1..Len(torf) |-> ~torf[i]]

RECURSIVE nonzeroFrom(_, _)
nonzeroFrom(torf, i) ==
    IF i > Len(torf) THEN <<>>
    ELSE IF torf[i] THEN <<i - 1>> \o nonzeroFrom(torf, i + 1)
    ELSE nonzeroFrom(torf, i + 1)
nonzero(torf) == nonzeroFrom(torf, 1)
whereFalse(torf) == nonzero(invert(torf))

\* arr[ss] for an index array ss (fancy indexing, read)
take(arr, ss) == [j \in 1..Len(ss) |-> arr[ss[j] + 1]]
min(a, b) == IF a < b THEN a ELSE b
Elems(ss) == {ss[j] : j \in 1..Len(ss)}
\* torf[ss] = arr (arr has one entry per element of ss)
put(torf, ss, arr) ==
    [i \in 1..Len(torf) |->
        IF \E j \in 1..Len(ss) : ss[j] = i - 1
        THEN arr[CHOOSE j \in 1..Len(ss) : ss[j] = i - 1]
        ELSE torf[i]]
\* torf[ss] = value
fill(torf, ss, value) ==
    [i \in 1..Len(torf) |-> IF (i - 1) \in Elems(ss) THEN value ELSE torf[i]]
\* index array of a set of 0-based indices, ascending
RECURSIVE sorted(_)
sorted(S) ==
    IF S = {} THEN <<>>
    ELSE LET lo == CHOOSE x \in S : \A y \in S : x <= y
         IN <<lo>> \o sorted(S \ {lo})
abs(x) == IF x < 0 THEN -x ELSE x

\* ------------------------------------------------------------- atom data
\* An AtomGroup: n atoms with flags, data fields, one coordinate axis and
\* an optional bond map (bonds = FALSE stands for _bmap being None).
Masks(n) == [1..n -> BOOLEAN]
FlagLabels == {"protein", "water", "all", "none"}

MkAtomGroup(n, protein, water, bonds, serials) ==
    [n |-> n,
     flags |-> [f \in FlagLabels |->
                  CASE f = "protein" -> protein
                    [] f = "water" -> water
                    [] f = "all" -> ones(n)
                    [] OTHER -> zeros(n)],
     resnum |-> [i \in 1..n |-> (i + 1) \div 2],
     resindex |-> [i \in 1..n |-> ((i + 1) \div 2) - 1],
     name |-> [i \in 1..n |-> IF i % 2 = 1 THEN "CA" ELSE "CB"],
     icode |-> [i \in 1..n |-> ""],
     coords |-> [i \in 1..n |-> ((i - 1) * i) \div 2],
     bonds |-> bonds,
     bmap |-> [i \in 1..n |-> {j \in 0..(n - 1) : abs(j - (i - 1)) = 1}],
     serials |-> serials]

\* a large group: the first k atoms are water, the others protein
BigAtomGroup(k) ==
    [MkAtomGroup(BigN, [i \in 1..BigN |-> i > k], [i \in 1..BigN |-> i <= k],
                 TRUE, TRUE)
        EXCEPT !.resnum = [i \in 1..BigN |-> i],
               !.resindex = [i \in 1..BigN |-> i - 1],
               !.coords = [i \in 1..BigN |-> i - 1]]

BigAtomGroups == {BigAtomGroup(k) : k \in (SmallQuery - 1)..(SmallQuery + 1)}

\* The atoms argument of a call: an AtomGroup itself (whole) or a Selection
\* of it holding the sorted indices of its atoms.
WholeView(ag) == [ag |-> ag, whole |-> TRUE, indices |-> <<>>]
SelectionView(ag, S) == [ag |-> ag, whole |-> FALSE, indices |-> sorted(S)]

ViewsOf(ag) ==
    {WholeView(ag)}
    \cup {SelectionView(ag, S) : S \in (SUBSET (0..(ag.n - 1))) \ {{}}}


\* --------------------------------------------- Atomic interface (callee)
\* the number of atoms of the atom group behind a view
numAtomsOfGroup(atoms) == atoms.ag.n

numAtoms(atoms) == IF atoms.whole THEN atoms.ag.n ELSE Len(atoms.indices)
restrict(atoms, arr) == IF atoms.whole THEN arr ELSE take(arr, atoms.indices)
isFlagLabel(atoms, token) == token.k = "w" /\ token.w \in FlagLabels
getFlags(atoms, label) == restrict(atoms, atoms.ag.flags[label])
DataLabels == {"resnum", "resindex", "name", "icode"}
isDataLabel(atoms, token) == token.k = "w" /\ token.w \in DataLabels
atomsGetData(atoms, label) ==
    CASE label = "resnum" -> Data(restrict(atoms, atoms.ag.resnum))
      [] label = "resindex" -> Data(restrict(atoms, atoms.ag.resindex))
      [] label = "name" -> StrData(restrict(atoms, atoms.ag.name))
      [] label = "icode" -> StrData(restrict(atoms, atoms.ag.icode))
      [] OTHER -> None
atomsGetCoords(atoms) == restrict(atoms, atoms.ag.coords)
\* KDTree.search(radius, center) followed by getIndices(): the 0-based
\* positions of the points within radius of center
kdtreeSearch(points, radius, center) ==
    {i - 1 : i \in {j \in 1..Len(points) : abs(points[j] - center) <= radius}}

\* ------------------------------------------------------- module constants
OPERATORS == {"+", "-", "*", "/", "%", ">", "<", ">=", "<=", "=", "==", "!="}
UNARY == {"not", "bonded", "exbonded", "within", "exwithin", "same"}
SAMEAS_MAP == {"residue", "chain", "segment", "fragment"}
sameasIndex(what) ==
    CASE what = "residue" -> "resindex"
      [] what = "chain" -> "chindex"
      [] what = "segment" -> "segindex"
      [] OTHER -> "fragindex"
\* keys of Select._evalmap
EvalMap == {"resnum", "resid", "serial", "index", "x", "y", "z", "chid",
            "secstr", "fragment", "fragindex", "segment", "sequence"}
\* names of prody.atomic.fields.ATOMIC_FIELDS used here
ATOMIC_FIELDS == {"name", "resnum", "resindex", "chindex", "segindex",
                  "fragindex", "icode", "serial", "beta", "chain"}

\* ----------------------------------------------------- Select: data access
\* The state of a Select instance during one call, as set by getBoolArray.
\* _data is the cache of _getData, a set of [key, data] entries; _coords is
\* <<>> for None or holds the coordinates _getCoords has fetched. Self(atoms)
\* is the state getBoolArray evaluates in on a new instance.
Self(atoms) ==
    [_atoms |-> atoms, _n_atoms |-> numAtoms(atoms), _data |-> {},
     _coords |-> <<>>]

_getCoords(self) ==
    IF self._coords # <<>> THEN self._coords[1]
    ELSE atomsGetCoords(self._atoms)

_getData(self, keyword) ==
    IF \E e \in self._data : e.key = keyword
    THEN (CHOOSE e \in self._data : e.key = keyword).data
    ELSE IF keyword = "x" THEN Data(_getCoords(self))
    ELSE IF keyword = "index"
    THEN Data(IF self._atoms.whole THEN arange(self._atoms.ag.n)
              ELSE self._atoms.indices)
    ELSE LET data == atomsGetData(self._atoms, keyword)
         IN IF data.k # "none" THEN data
            ELSE IF keyword \in ATOMIC_FIELDS
            THEN SelectionError("is not set")
            ELSE SelectionError("is not a valid data label")

_getFlags(self, label, subset) ==
    IF subset.k = "none" THEN getFlags(self._atoms, label)
    ELSE take(getFlags(self._atoms, label), subset.m)

_getZeros(self, subset) ==
    IF subset.k = "none" THEN zeros(numAtoms(self._atoms)) ELSE zeros(Len(subset.m))

\* every index of ss addresses an entry of arr
fits(ss, arr) == \A j \in 1..Len(ss) : ss[j] < Len(arr)

\* torf[ss] = arr[ss] with numpy's bounds check
putFrom(torf, ss, arr) ==
    IF fits(ss, arr) THEN Bool(put(torf, ss, take(arr, ss)))
    ELSE Raise("IndexError", "index out of bounds")

\* torf[ss] = arr with numpy's shape check (a single value is broadcast)
putAll(torf, ss, arr) ==
    IF Len(arr) = Len(ss) THEN Bool(put(torf, ss, arr))
    ELSE IF Len(arr) = 1 THEN Bool(fill(torf, ss, arr[1]))
    ELSE Raise("ValueError", "shape mismatch")

\* ------------------------------------------------- Select: unary keywords
\* a _not that hands back its argument
notKept(self, tokens) == tokens[2]

\* tokens = <<label, torf>>; label is the tuple of the keyword's own words
_not(self, tokens) == Bool(invert(tokens[2].m))

\* a small search that never clears the query atoms
withinSmallKept(self, within, which, coords, exclude) ==
    LET hits == UNION {kdtreeSearch(self._atoms.ag.coords, within, coords[which[j] + 1]) :
                         j \in 1..Len(which)}
    IN Bool(restrict(self._atoms, [i \in 1..self._atoms.ag.n |-> (i - 1) \in hits]))

\* the mask of the atoms found near the query atoms, probing a tree of all
\* atoms of the atom group with each query point (len(which) < 20)
withinSmall(self, within, which, coords, exclude) ==
    LET atoms == self._atoms
        hits == UNION {kdtreeSearch(atoms.ag.coords, within, coords[which[j] + 1]) :
                         j \in 1..Len(which)}
        all == [i \in 1..atoms.ag.n |-> (i - 1) \in hits]
        torf == restrict(atoms, all)
    IN Bool(IF exclude THEN fill(torf, which, FALSE) ELSE torf)

\* the mask found by probing a tree of the query points with every other
\* atom (len(which) >= 20)
withinLarge(self, within, which, coords, exclude) ==
    LET n_atoms == self._atoms.ag.n
        check == nonzero(fill(ones(n_atoms), which, FALSE))
        wxyz == take(coords, which)
    IN IF ~fits(check, coords) THEN Raise("IndexError", "index out of bounds")
       ELSE LET found == {check[i] : i \in {j \in 1..Len(check) :
                            kdtreeSearch(wxyz, within, coords[check[j] + 1]) # {}}}
                torf == [i \in 1..n_atoms |-> (i - 1) \in found]
            IN Bool(IF exclude THEN torf ELSE fill(torf, which, TRUE))

_within(self, tokens) ==
    LET label == tokens[1].l
        which == tokens[2]
        exclude == label[1].w = "exwithin"
    IN IF label[2].k # "num" THEN Raise("TypeError", "could not convert to float")
       ELSE IF ~HasDtype(which) THEN Raise("TypeError", "object has no len()")
       ELSE IF which.k # "bool" THEN SelectionError("not understood")
       ELSE LET idx == nonzero(which.m)
                coords == _getCoords(self)
            IN IF ~fits(idx, coords) THEN Raise("IndexError", "index out of bounds")
               ELSE IF Len(idx) < SmallQuery
               THEN withinSmall(self, label[2].n, idx, coords, exclude)
               ELSE withinLarge(self, label[2].n, idx, coords, exclude)

_sameas(self, tokens) ==
    LET label == tokens[1].l
        which == tokens[2]
    IN IF ~(label[2].k = "w" /\ label[2].w \in SAMEAS_MAP)
       THEN SelectionError("entity in same ... as must be one of chain, residue, segment, or fragment")
       ELSE LET indices == _getData(self, sameasIndex(label[2].w))
            IN IF indices.k # "data" \/ which.k # "bool"
                  \/ Len(which.m) # Len(indices.m)
               THEN Raise("TypeError", "cannot index group indices")
               ELSE LET iset == {indices.m[i] : i \in {j \in 1..Len(which.m) : which.m[j]}}
                    IN Bool([i \in 1..Len(indices.m) |-> indices.m[i] \in iset])

\* one pass of the loop over range(repeat): the atoms bonded to which
bondedStep(self, which, exclude) ==
    LET atoms == self._atoms
        rows == restrict(atoms, atoms.ag.bmap)
        bonded == UNION {rows[which[j] + 1] : j \in 1..Len(which)}
        all == [i \in 1..atoms.ag.n |-> (i - 1) \in bonded]
    IN fill(restrict(atoms, all), which, ~exclude)

RECURSIVE bondedLoop(_, _, _, _, _)
bondedLoop(self, torf, which, exclude, todo) ==
    IF todo = 0 THEN torf
    ELSE LET next == bondedStep(self, which, exclude)
         IN bondedLoop(self, next, IF todo > 1 THEN nonzero(next) ELSE which,
                       exclude, todo - 1)

_bondedto(self, tokens) ==
    LET label == tokens[1].l
        torf == tokens[2]
        token == label[2]
        exclude == label[1].w = "exbonded"
        repeat == IF IsWord(token, "to") THEN 1 ELSE token.n
    IN IF ~IsWord(token, "to") /\ token.k # "num"
       THEN Raise("ValueError", "invalid literal for int()")
       ELSE IF repeat <= 0 THEN Bool(zeros(numAtoms(self._atoms)))
       ELSE IF ~self._atoms.ag.bonds THEN SelectionError("bonds are not set")
       ELSE IF torf.k # "bool" THEN Raise("AttributeError", "no attribute nonzero")
       ELSE LET which == nonzero(torf.m)
            IN IF Len(which) = 0 THEN torf
               ELSE IF ~fits(which, restrict(self._atoms, self._atoms.ag.bmap))
               THEN Raise("IndexError", "index out of bounds")
               ELSE Bool(bondedLoop(self, torf.m, which, exclude, repeat))

\* ------------------------------------------------ Select: field evaluation
\* numpy.arange(start, stop, step) for step > 0
RECURSIVE arange3(_, _, _)
arange3(start, stop, step) ==
    IF start >= stop THEN <<>> ELSE <<start>> \o arange3(start + step, stop, step)

\* the first loop of _generic: the values a numeric field is compared with
RECURSIVE genericValues(_, _)
genericValues(tokens, isstr) ==
    IF tokens = <<>> THEN <<>>
    ELSE LET token == Head(tokens)
             rest == genericValues(Tail(tokens), isstr)
         IN CASE token.k = "range" /\ ~isstr /\ token.w = "step" /\ token.n > 0 ->
                   arange3(token.m[1], token.m[2], token.n) \o rest
              [] token.k = "num" /\ ~isstr -> <<token.n>> \o rest
              [] token.k = "w" /\ isstr ->
                   (IF token.w = "_" THEN <<"", " ">> ELSE <<token.w>>) \o rest
              [] OTHER -> rest

\* the ranges of _generic: range tokens that end with a comparison operator
genericRanges(tokens, isstr) ==
    SelectSeq(tokens, LAMBDA t : t.k = "range" /\ ~isstr /\ t.w \in OPERATORS)

\* a comparison that takes every range for an inclusive one
compareInclusive(comp, a, b) == a <= b

compare(comp, a, b) == IF comp = "<=" THEN a <= b ELSE a < b

\* "if values:" with at most four values: one comparison per value, each
\* over the atoms that are still False
RECURSIVE valuesLoop(_, _, _)
valuesLoop(data, values, torf) ==
    IF values = <<>> THEN [torf |-> torf, done |-> FALSE]
    ELSE LET subset == whereFalse(torf)
         IN IF Len(subset) = 0 THEN [torf |-> torf, done |-> TRUE]
            ELSE valuesLoop(data, Tail(values),
                    put(torf, subset,
                        [j \in 1..Len(subset) |-> data[subset[j] + 1] = Head(values)]))

valuesMask(data, values) ==
    IF Len(values) > 4
    THEN [torf |-> [i \in 1..Len(data) |-> \E j \in 1..Len(values) : values[j] = data[i]],
          done |-> FALSE]
    ELSE valuesLoop(data, Tail(values), [i \in 1..Len(data) |-> data[i] = Head(values)])

\* "while ranges:"; torf is a token, None before the first mask exists
RECURSIVE rangesLoop(_, _, _)
rangesLoop(data, ranges, torf) ==
    IF ranges = <<>> THEN [torf |-> torf, done |-> FALSE]
    ELSE LET start == Head(ranges).m[1]
             stop == Head(ranges).m[2]
             comp == Head(ranges).w
         IN IF torf.k = "none"
            THEN rangesLoop(data, Tail(ranges),
                    Bool([i \in 1..Len(data) |->
                            start <= data[i] /\ compare(comp, data[i], stop)]))
            ELSE LET subset == whereFalse(torf.m)
                 IN IF Len(subset) = 0 THEN [torf |-> torf, done |-> TRUE]
                    ELSE rangesLoop(data, Tail(ranges),
                           Bool(put(torf.m, subset,
                              [j \in 1..Len(subset) |->
                                 start <= data[subset[j] + 1]
                                 /\ compare(comp, data[subset[j] + 1], stop)])))

_generic(self, tokens, subset) ==
    LET label == Head(tokens)
        all == _getData(self, label.w)
    IN IF IsErr(all) THEN all
       ELSE IF subset.k # "none" /\ ~fits(subset.m, all.m)
       THEN Raise("IndexError", "index out of bounds")
       ELSE IF \E i \in 2..Len(tokens) :
                 tokens[i].k = "range" /\ tokens[i].w = "step" /\ tokens[i].n = 0
                 /\ all.k = "data"
       THEN Raise("ZeroDivisionError", "arange step is zero")
       ELSE LET data == IF subset.k = "none" THEN all.m ELSE take(all.m, subset.m)
                isstr == all.k = "sdata"
                values == genericValues(Tail(tokens), isstr)
                ranges == genericRanges(Tail(tokens), isstr)
                v == IF values = <<>> THEN [torf |-> None, done |-> FALSE]
                     ELSE LET r == valuesMask(data, values)
                          IN [torf |-> Bool(r.torf), done |-> r.done]
                r == IF v.done THEN v ELSE rangesLoop(data, ranges, v.torf)
            IN IF r.torf.k = "none" THEN Bool(_getZeros(self, None)) ELSE r.torf

\* the indices a Python slice start:stop:step addresses in an array of n
clip(i, n) == IF i < 0 THEN (IF i + n < 0 THEN 0 ELSE i + n) ELSE IF i > n THEN n ELSE i
slice(n, start, stop, step) ==
    IF step <= 0 THEN {}
    ELSE {i \in 0..(n - 1) : i >= clip(start, n) /\ i < clip(stop, n)
                              /\ (i - clip(start, n)) % step = 0}

\* the indices one token of an index or serial selection sets True in an
\* array of length n; integers address like Python (negative from the end,
\* out of range ignored)
indexToken(token, n) ==
    CASE token.k = "range" ->
           slice(n, token.m[1],
                 IF token.w = "<=" THEN token.m[2] + 1 ELSE token.m[2],
                 IF token.w \in OPERATORS THEN 1 ELSE token.n)
      [] token.k = "num" ->
           IF token.n >= 0 /\ token.n < n THEN {token.n}
           ELSE IF token.n < 0 /\ token.n + n >= 0 THEN {token.n + n}
           ELSE {}
      [] OTHER -> {}

indexError(tokens) ==
    IF \E i \in 1..Len(tokens) :
              tokens[i].k = "range" /\ tokens[i].w = "step" /\ tokens[i].n = 0
    THEN Raise("ValueError", "slice step cannot be zero")
    ELSE IF \E i \in 1..Len(tokens) : tokens[i].k = "w"
    THEN Raise("ValueError", "could not convert string to float")
    ELSE None

_index(self, tokens, subset) ==
    LET n == self._atoms.ag.n
        values == Tail(tokens)
        set == UNION {indexToken(values[i], n) : i \in 1..Len(values)}
        torf == [i \in 1..n |-> (i - 1) \in set]
    IN IF indexError(values).k # "none" THEN indexError(values)
       ELSE IF subset.k = "none" THEN Bool(torf)
       ELSE IF ~fits(subset.m, torf) THEN Raise("IndexError", "index out of bounds")
       ELSE Bool(take(torf, subset.m))

\* serial numbers of the model: atom i carries serial i + 1, so that
\* sn2i = [-1, 0, 1, ..., n - 1]
_serial(self, tokens, subset) ==
    LET n == self._atoms.ag.n
        values == Tail(tokens)
        set == UNION {indexToken(values[i], n + 1) : i \in 1..Len(values)}
        indices == {sn - 1 : sn \in set \ {0}}
        torf == [i \in 1..n |-> (i - 1) \in indices]
    IN IF ~self._atoms.ag.serials THEN Raise("TypeError", "string indices must be integers")
       ELSE IF indexError(values).k # "none" THEN indexError(values)
       ELSE IF indices = {} THEN Bool(_getZeros(self, subset))
       ELSE IF subset.k = "none" THEN Bool(torf)
       ELSE IF ~fits(subset.m, torf) THEN Raise("IndexError", "index out of bounds")
       ELSE Bool(take(torf, subset.m))

\* "icode = token[-1]; value = token[:1]" for the words that float() refuses
\* and whose first character is a digit
wicodeOf(tokens) ==
    {<<tokens[i].m[1], IF tokens[i].l[1] = "_" THEN "" ELSE tokens[i].l[1]>> :
        i \in {j \in 1..Len(tokens) : tokens[j].k = "w" /\ tokens[j].m # <<>>}}

\* "[val in wicode for val in zip(resnums, icode)]": zip stops at the
\* shorter of the two
zipped(resnums, icode, wicode) ==
    [i \in 1..min(Len(resnums), Len(icode)) |-> <<resnums[i], icode[i]>> \in wicode]

\* resnum with numbers, number ranges and number and insertion code words;
\* other words only draw a warning
_resnum(self, tokens, subset) ==
    LET resnums == _getData(self, "resnum")
        values == <<W("resnum")>>
                  \o SelectSeq(Tail(tokens), LAMBDA t : t.k \in {"range", "num"})
        wicode == wicodeOf(Tail(tokens))
        torf == IF Len(values) > 1 THEN _generic(self, values, subset) ELSE None
        icode == _getData(self, "icode")
        rnic == zipped(resnums.m,
                       IF subset.k = "none" THEN icode.m ELSE take(icode.m, subset.m),
                       wicode)
    IN IF IsErr(resnums) THEN resnums
       ELSE IF wicode = {} \/ IsErr(torf) THEN torf
       ELSE IF IsErr(icode) THEN icode
       ELSE IF torf.k = "none" THEN Bool(rnic)
       ELSE Bool([i \in 1..Len(torf.m) |-> torf.m[i] \/ rnic[i]])

\* ------------------------------------------------------ Select: arithmetic
\* A float is an exact fraction [n, d] with d > 0 in lowest terms; NaN
\* stands for every value that is not a fraction (nan, inf, and the
\* irrational values of roots and transcendental functions).
RECURSIVE gcd(_, _)
gcd(a, b) == IF b = 0 THEN a ELSE gcd(b, a % b)
NaN == [n |-> 0, d |-> 0]
isNaN(r) == r.d = 0
Rat(n, d) ==
    IF d = 0 THEN NaN
    ELSE LET g == gcd(abs(n), abs(d))
         IN IF d > 0 THEN [n |-> n \div g, d |-> d \div g]
            ELSE [n |-> (0 - n) \div g, d |-> (0 - d) \div g]
rfloor(r) == IF isNaN(r) THEN NaN ELSE Rat(r.n \div r.d, 1)
rceil(r) == IF isNaN(r) THEN NaN ELSE Rat(0 - ((0 - r.n) \div r.d), 1)
\* the cast of a float to an integer type: truncation toward zero
trunc(r) == IF r.n >= 0 THEN r.n \div r.d ELSE 0 - ((0 - r.n) \div r.d)

RECURSIVE ipow(_, _)
ipow(r, k) == IF k = 0 THEN Rat(1, 1)
              ELSE LET p == ipow(r, k - 1) IN Rat(r.n * p.n, r.d * p.d)
\* a ** b for fractions: exact for an integer exponent
power(a, b) ==
    IF isNaN(a) \/ isNaN(b) \/ b.d # 1 THEN NaN
    ELSE IF b.n >= 0 THEN ipow(a, b.n)
    ELSE IF a.n = 0 THEN NaN
    ELSE ipow(Rat(a.d, a.n), 0 - b.n)

\* OPERATORS[op](a, b) on two floats, for the arithmetic operators
operate(op, a, b) ==
    IF isNaN(a) \/ isNaN(b) THEN NaN
    ELSE CASE op = "+" -> Rat(a.n * b.d + b.n * a.d, a.d * b.d)
           [] op = "-" -> Rat(a.n * b.d - b.n * a.d, a.d * b.d)
           [] op = "*" -> Rat(a.n * b.n, a.d * b.d)
           [] op = "/" -> Rat(a.n * b.d, a.d * b.n)
           [] OTHER -> IF b.n = 0 THEN NaN
                       ELSE LET q == rfloor(Rat(a.n * b.d, a.d * b.n))
                            IN Rat(a.n * b.d - q.n * b.n * a.d, a.d * b.d)

\* OPERATORS[op](a, b) on two floats, for the comparison operators
compares(op, a, b) ==
    IF isNaN(a) \/ isNaN(b) THEN op = "!="
    ELSE CASE op = "<" -> a.n * b.d < b.n * a.d
           [] op = ">" -> a.n * b.d > b.n * a.d
           [] op = "<=" -> a.n * b.d <= b.n * a.d
           [] op = ">=" -> a.n * b.d >= b.n * a.d
           [] op = "!=" -> a # b
           [] OTHER -> a = b

\* numeric values: Float is a Python float, F64 a numpy scalar (it has a
\* dtype and ndim 0), FData a float array
Float(r) == Tok("float", "", 0, <<r>>, <<>>)
F64(r) == Tok("f64", "", 0, <<r>>, <<>>)
FData(arr) == Tok("fdata", "", 0, arr, <<>>)
IsArray(t) == t.k \in {"data", "fdata", "bool"}
IsScalar(t) == t.k \in {"float", "f64"}
\* the values of a numeric token as floats
floats(t) == IF t.k = "data" THEN [i \in 1..Len(t.m) |-> Rat(t.m[i], 1)] ELSE t.m
\* numpy broadcasting of two operands
shape(left, right) ==
    IF IsArray(left) THEN Len(left.m) ELSE IF IsArray(right) THEN Len(right.m) ELSE 1
at(t, i) == IF IsArray(t) THEN floats(t)[i] ELSE floats(t)[1]
broadcasts(left, right) ==
    ~(IsArray(left) /\ IsArray(right)) \/ Len(left.m) = Len(right.m)

_getNumeric(self, arg, copy) ==
    IF HasDtype(arg)
    THEN (IF arg.k = "bool"
          THEN SelectionError("operands and function arguments must be numbers or numeric data labels")
          ELSE arg)
    ELSE IF arg.k = "w" /\ arg.w = "x"
    THEN FData([i \in 1..Len(_getCoords(self)) |-> Rat(_getCoords(self)[i], 1)])
    ELSE IF arg.k = "w" /\ atomsGetData(self._atoms, arg.w).k = "sdata"
    THEN SelectionError("is not a numeric data label")
    ELSE IF arg.k = "w" /\ atomsGetData(self._atoms, arg.w).k = "data"
    THEN atomsGetData(self._atoms, arg.w)
    ELSE IF arg.k = "w" /\ arg.w = "index"
    THEN Data(IF self._atoms.whole THEN arange(self._atoms.ag.n) ELSE self._atoms.indices)
    ELSE IF arg.k = "num" THEN Float(Rat(arg.n, 1))
    ELSE IF arg.k = "float" THEN arg
    ELSE SelectionError("is not a number or a numeric data label")

\* binop(left, right) and binop(left, right, left): an array on the left is
\* written in place and keeps its type, an integer array by truncation
applied(op, left, right) ==
    IF left.k = "sdata" \/ right.k = "sdata"
    THEN Raise("TypeError", "ufunc not supported for the input types")
    ELSE IF ~broadcasts(left, right)
    THEN Raise("ValueError", "operands could not be broadcast together")
    ELSE LET out == [i \in 1..shape(left, right) |-> operate(op, at(left, i), at(right, i))]
         IN IF left.k = "data"
            THEN (IF \E i \in 1..Len(out) : isNaN(out[i])
                  THEN Raise("ValueError", "cannot convert float NaN to integer")
                  ELSE Data([i \in 1..Len(out) |-> trunc(out[i])]))
            ELSE IF IsArray(left) \/ IsArray(right) THEN FData(out)
            ELSE F64(out[1])

\* a check for zero that never finds one
neverZero(right) == FALSE

\* "any(right == 0.0)"
anyZero(right) ==
    /\ right.k # "sdata"
    /\ \E i \in 1..Len(right.m) : at(right, i).n = 0 /\ ~isNaN(at(right, i))

\* the loop of _binop: tokens is what follows the left operand
RECURSIVE binopLoop(_, _, _)
binopLoop(self, left, tokens) ==
    IF tokens = <<>> \/ IsErr(left) THEN left
    ELSE IF ~(tokens[1].k = "w" /\ tokens[1].w \in OPERATORS)
    THEN SelectionError("invalid operator encountered")
    ELSE LET right == _getNumeric(self, tokens[2], FALSE)
         IN IF IsErr(right) THEN right
            ELSE IF tokens[1].w = "/" /\ anyZero(right)
            THEN SelectionError("zero division error")
            ELSE binopLoop(self, applied(tokens[1].w, left, right),
                           SubSeq(tokens, 3, Len(tokens)))

_binop(self, tokens) ==
    IF Len(tokens) >= 3 /\ Len(tokens) % 2 # 1
    THEN SelectionError("invalid number of items")
    ELSE binopLoop(self, _getNumeric(self, Head(tokens), TRUE), Tail(tokens))

\* the loop of _comp: every comparison is made with the first operand
RECURSIVE compLoop(_, _, _, _)
compLoop(self, left, torf, tokens) ==
    IF tokens = <<>> \/ IsErr(torf) THEN torf
    ELSE IF ~(tokens[1].k = "w" /\ tokens[1].w \in OPERATORS)
    THEN SelectionError("invalid operator encountered")
    ELSE LET right == _getNumeric(self, tokens[2], FALSE)
         IN IF IsErr(right) THEN right
            ELSE IF left.k = "sdata" \/ right.k = "sdata"
            THEN Raise("TypeError", "ufunc not supported for the input types")
            ELSE IF ~broadcasts(left, right) \/ (IsArray(torf) /\ ~broadcasts(torf, right))
            THEN Raise("ValueError", "operands could not be broadcast together")
            ELSE IF torf.k = "b8"
            THEN Raise("TypeError", "return arrays must be of ArrayType")
            ELSE LET now == [i \in 1..shape(left, right) |->
                               compares(tokens[1].w, at(left, i), at(right, i))]
                     isarr == IsArray(left) \/ IsArray(right)
                 IN compLoop(self, left,
                       IF torf.k = "none"
                       THEN (IF isarr THEN Bool(now) ELSE Tok("b8", "", 0, now, <<>>))
                       ELSE IF isarr /\ Len(now) # Len(torf.m)
                       THEN Raise("ValueError", "operands could not be broadcast together")
                       ELSE Bool([i \in 1..Len(torf.m) |->
                                    torf.m[i] /\ now[IF isarr THEN i ELSE 1]]),
                       SubSeq(tokens, 3, Len(tokens)))

\* the check of _comp on what the loop returned
compChecked(self, torf) ==
    IF IsErr(torf) THEN torf
    ELSE IF torf.k # "bool" \/ Len(torf.m) # numAtoms(self._atoms)
    THEN SelectionError("comparison must contain atomic data")
    ELSE torf

_comp(self, tokens) ==
    IF Len(tokens) >= 3 /\ Len(tokens) % 2 # 1
    THEN SelectionError("invalid number of operators and operands")
    ELSE IF IsErr(_getNumeric(self, Head(tokens), FALSE))
    THEN _getNumeric(self, Head(tokens), FALSE)
    ELSE compChecked(self, compLoop(self, _getNumeric(self, Head(tokens), FALSE),
                                    None, Tail(tokens)))

\* base ** power as Python and numpy compute it
raisedTo(base, exponent) ==
    IF IsErr(base) THEN base
    ELSE IF IsErr(exponent) THEN exponent
    ELSE IF base.k = "sdata" \/ exponent.k = "sdata"
    THEN Raise("TypeError", "unsupported operand type(s) for **")
    ELSE IF ~broadcasts(base, exponent)
    THEN Raise("ValueError", "operands could not be broadcast together")
    ELSE LET out == [i \in 1..shape(base, exponent) |-> power(at(base, i), at(exponent, i))]
         IN IF IsArray(base) \/ IsArray(exponent) THEN FData(out)
            ELSE IF base.k = "float" /\ exponent.k = "float"
            THEN (IF at(base, 1).n = 0 /\ at(exponent, 1).n < 0
                  THEN Raise("ZeroDivisionError", "0.0 cannot be raised to a negative power")
                  ELSE Float(out[1]))
            ELSE F64(out[1])

\* the loop of _pow: tokens is what precedes the last operand, the operands
\* are taken from the right
RECURSIVE powLoop(_, _, _)
powLoop(self, tokens, exponent) ==
    IF IsErr(exponent) THEN exponent
    ELSE IF ~(tokens[Len(tokens)].k = "w" /\ tokens[Len(tokens)].w \in {"^", "**"})
    THEN SelectionError("invalid power operator")
    ELSE IF Len(tokens) = 1 THEN exponent
    ELSE powLoop(self, SubSeq(tokens, 1, Len(tokens) - 2),
                 raisedTo(_getNumeric(self, tokens[Len(tokens) - 1], FALSE), exponent))

_pow(self, tokens) ==
    LET base == _getNumeric(self, Head(tokens), FALSE)
    IN IF IsErr(base) THEN base
       ELSE raisedTo(base, powLoop(self, SubSeq(tokens, 2, Len(tokens) - 1),
                                   _getNumeric(self, tokens[Len(tokens)], FALSE)))

\* "-arg"
negative(arg) ==
    IF arg.k = "data" THEN Data([i \in 1..Len(arg.m) |-> 0 - arg.m[i]])
    ELSE IF arg.k = "sdata" THEN Raise("TypeError", "bad operand type for unary -")
    ELSE [arg EXCEPT !.m = [i \in 1..Len(arg.m) |->
                              IF isNaN(arg.m[i]) THEN NaN ELSE Rat(0 - arg.m[i].n, arg.m[i].d)]]

_sign(self, tokens) ==
    IF Len(tokens) # 2
    THEN SelectionError("sign operators (+/-) must be followed by single keyword")
    ELSE LET arg == _getNumeric(self, tokens[2], FALSE)
         IN IF IsErr(arg) THEN arg
            ELSE IF tokens[1].w = "-" THEN negative(arg)
            ELSE arg

\* the keys of FUNCTIONS
FUNCTIONS == {"sqrt", "sq", "abs", "floor", "ceil", "sin", "cos", "tan", "asin",
              "acos", "atan", "sinh", "cosh", "tahn", "exp", "log", "log10"}

\* the square root of a fraction whose terms are perfect squares
root(r) ==
    IF \E p \in 0..r.n, q \in 1..r.d : p * p = r.n /\ q * q = r.d
    THEN LET p == CHOOSE p \in 0..r.n : p * p = r.n
             q == CHOOSE q \in 1..r.d : q * q = r.d
         IN Rat(p, q)
    ELSE NaN

\* FUNCTIONS[name](x) for one float: exact where the value is a fraction
funcValue(name, r) ==
    IF isNaN(r) THEN NaN
    ELSE CASE name = "sq" -> Rat(r.n * r.n, r.d * r.d)
           [] name = "abs" -> Rat(abs(r.n), r.d)
           [] name = "floor" -> rfloor(r)
           [] name = "ceil" -> rceil(r)
           [] name = "sqrt" -> IF r.n < 0 THEN NaN ELSE root(r)
           [] name \in {"sin", "tan", "asin", "atan", "sinh", "tahn"} ->
                IF r.n = 0 THEN Rat(0, 1) ELSE NaN
           [] name \in {"cos", "cosh", "exp"} -> IF r.n = 0 THEN Rat(1, 1) ELSE NaN
           [] OTHER -> IF r = Rat(1, 1) THEN Rat(0, 1) ELSE NaN

_func(self, tokens) ==
    IF Len(tokens) # 2
    THEN SelectionError("accepts a single numeric argument")
    ELSE LET arg == _getNumeric(self, tokens[2], FALSE)
         IN IF IsErr(arg) THEN arg
            ELSE IF arg.k = "sdata"
            THEN Raise("TypeError", "ufunc not supported for the input types")
            ELSE IF arg.k = "data" /\ tokens[1].w \in {"sq", "abs"}
            THEN Data([i \in 1..Len(arg.m) |-> trunc(funcValue(tokens[1].w, at(arg, i)))])
            ELSE IF IsArray(arg)
            THEN FData([i \in 1..Len(arg.m) |-> funcValue(tokens[1].w, at(arg, i))])
            ELSE F64(funcValue(tokens[1].w, at(arg, 1)))

\* ------------------------------------------------ Select: and, or, unary
\* The first loop of _and2 sorts the tokens into flags, boolean arrays
\* (torfs), field evaluations (evals) and unary keyword statements (unary).
\* append names the list the next plain token is appended to.
NoLists == [flags |-> <<>>, torfs |-> <<>>, evals |-> <<>>, unary |-> <<>>,
            append |-> "None", err |-> None]

appendTo(list, token) == [list EXCEPT ![Len(list)] = Append(@, token)]

\* "elif token in UNARY:": the keyword's label tuple, then every token left
unaryStatement(token, tokens) ==
    CASE token.w = "not" -> <<Label(<<token>>)>> \o tokens
      [] token.w = "same" ->
           IF Len(tokens) < 3 \/ ~IsWord(tokens[2], "as")
           THEN <<Raise("IndexError", "tuple index out of range")>>
           ELSE <<Label(<<token, tokens[1], tokens[2]>>)>> \o SubSeq(tokens, 3, Len(tokens))
      [] token.w \in {"within", "exwithin"} ->
           IF Len(tokens) < 3 \/ ~IsWord(tokens[2], "of")
           THEN <<Raise("IndexError", "tuple index out of range")>>
           ELSE <<Label(<<token, tokens[1], tokens[2]>>)>> \o SubSeq(tokens, 3, Len(tokens))
      [] OTHER ->
           IF tokens = <<>> THEN <<Raise("IndexError", "pop from empty list")>>
           ELSE LET token2 == Head(tokens)
                    rest == Tail(tokens)
                    isto == IsWord(token2, "to")
                IN IF Len(rest) < (1 + IF isto THEN 1 ELSE 0)
                   THEN <<Raise("IndexError", "tuple index out of range")>>
                   ELSE IF isto THEN <<Label(<<token, token2>>)>> \o rest
                   ELSE <<Label(<<token, token2, Head(rest)>>)>> \o Tail(rest)

RECURSIVE andLists(_, _, _)
andLists(self, tokens, acc) ==
    IF tokens = <<>> \/ acc.err.k # "none" THEN acc
    ELSE LET token == Head(tokens)
             rest == Tail(tokens)
             problem == SelectionError("a problem occurred when evaluation token")
         IN CASE token.k = "bool" ->
                   andLists(self, rest, [acc EXCEPT !.torfs = Append(@, token)])
              [] HasDtype(token) /\ token.k # "bool" -> [acc EXCEPT !.err = problem]
              [] IsWord(token, "and") ->
                   andLists(self, rest, [acc EXCEPT !.append = "None"])
              [] isFlagLabel(self._atoms, token) ->
                   andLists(self, rest, [acc EXCEPT !.flags = Append(@, token),
                                                    !.append = "None"])
              [] token.k = "w" /\ (isDataLabel(self._atoms, token) \/ token.w \in EvalMap
                                   \/ token.w \in ATOMIC_FIELDS) ->
                   andLists(self, rest, [acc EXCEPT !.evals = Append(@, <<token>>),
                                                    !.append = "evals"])
              [] token.k = "w" /\ token.w \in UNARY ->
                   LET stmt == unaryStatement(token, rest)
                   IN IF IsErr(stmt[1]) THEN [acc EXCEPT !.err = stmt[1]]
                      ELSE [acc EXCEPT !.unary = Append(@, stmt), !.append = "unary"]
              [] OTHER ->
                   IF acc.append = "evals"
                   THEN andLists(self, rest, [acc EXCEPT !.evals = appendTo(@, token)])
                   ELSE IF acc.append = "unary"
                   THEN andLists(self, rest, [acc EXCEPT !.unary = appendTo(@, token)])
                   ELSE [acc EXCEPT !.err = problem]

\* The first loop of _or: flags, boolean arrays and field evaluations.
RECURSIVE orLists(_, _, _)
orLists(self, tokens, acc) ==
    IF tokens = <<>> \/ acc.err.k # "none" THEN acc
    ELSE LET token == Head(tokens)
             rest == Tail(tokens)
         IN CASE token.k = "bool" ->
                   orLists(self, rest, [acc EXCEPT !.torfs = Append(@, token)])
              [] IsWord(token, "or") -> orLists(self, rest, acc)
              [] isFlagLabel(self._atoms, token) ->
                   orLists(self, rest, [acc EXCEPT !.flags = Append(@, token)])
              [] token.k = "w" /\ (isDataLabel(self._atoms, token) \/ token.w \in EvalMap) ->
                   orLists(self, rest, [acc EXCEPT !.evals = Append(@, <<token>>)])
              [] OTHER ->
                   IF acc.evals = <<>> THEN [acc EXCEPT !.err = SelectionError("")]
                   ELSE orLists(self, rest, [acc EXCEPT !.evals = appendTo(@, token)])

\* The while loops over torfs and flags.  A step is [torf, done]: torf is a
\* token (None, a mask or a raised error), done tells that the function has
\* returned.  keep selects the atoms a later term is evaluated for: the True
\* ones in _and2 (nonzero), the False ones in _or (where(torf == 0)).
Step(torf, done) == [torf |-> torf, done |-> done]
active(isand, torf) == IF isand THEN nonzero(torf) ELSE whereFalse(torf)

RECURSIVE arraysLoop(_, _, _)
arraysLoop(isand, torf, arrays) ==
    IF arrays = <<>> \/ IsErr(torf) THEN Step(torf, IsErr(torf))
    ELSE LET ss == active(isand, torf.m)
         IN IF Len(ss) = 0 THEN Step(torf, TRUE)
            ELSE arraysLoop(isand, putFrom(torf.m, ss, Head(arrays)), Tail(arrays))

\* "if torfs:" followed by "if flags:"
torfsAndFlags(self, isand, lists) ==
    LET flagArrays == [i \in 1..Len(lists.flags) |-> getFlags(self._atoms, lists.flags[i].w)]
        torfArrays == [i \in 1..Len(lists.torfs) |-> lists.torfs[i].m]
        s1 == IF torfArrays = <<>> THEN Step(None, FALSE)
              ELSE arraysLoop(isand, Head(lists.torfs), Tail(torfArrays))
    IN IF s1.done \/ flagArrays = <<>> THEN s1
       ELSE IF s1.torf.k = "none"
       THEN arraysLoop(isand, Bool(Head(flagArrays)), Tail(flagArrays))
       ELSE arraysLoop(isand, s1.torf, flagArrays)

\* the check that follows each _eval of a field evaluation
evalChecked(arr) ==
    IF IsErr(arr) THEN arr
    ELSE IF arr.k # "bool"
    THEN SelectionError("a problem occurred when evaluating token")
    ELSE arr

\* method(name, self, tokens, subset) is the call self.name(tokens, subset)
\* of a method of Select that is defined further down in the class
RECURSIVE method(_, _, _, _)
RECURSIVE evalsLoop(_, _, _, _, _)
RECURSIVE unaryLoop(_, _, _)

_eval(self, tokens, subset) ==
    IF Len(tokens) = 1
    THEN LET token == tokens[1]
             n == IF subset.k = "none" THEN self._n_atoms ELSE Len(subset.m)
         IN IF HasDtype(token) THEN token
            ELSE IF IsWord(token, "none") THEN Bool(zeros(n))
            ELSE IF IsWord(token, "all") THEN Bool(ones(n))
            ELSE IF isFlagLabel(self._atoms, token)
            THEN (IF subset.k # "none" /\ ~fits(subset.m, getFlags(self._atoms, token.w))
                  THEN Raise("IndexError", "index out of bounds")
                  ELSE Bool(_getFlags(self, token.w, subset)))
            ELSE IF isDataLabel(self._atoms, token)
            THEN (IF subset.k = "none" THEN _getData(self, token.w)
                  ELSE SelectionError("subset??"))
            ELSE IF token.k = "num" THEN token
            ELSE IF token.k = "w"
            THEN (IF ~IsErr(_getData(self, token.w)) THEN _getData(self, token.w)
                  ELSE IF token.w \in ATOMIC_FIELDS
                  THEN SelectionError("data is not found")
                  ELSE SelectionError("could not be evaluated"))
            ELSE Raise("TypeError", "float() argument must be a string or a number")
    ELSE CASE tokens[1].k # "w" -> Raise("TypeError", "unhashable or invalid label")
           [] tokens[1].w \in {"resnum", "resid"} -> _resnum(self, tokens, subset)
           [] tokens[1].w = "serial" -> _serial(self, tokens, subset)
           [] tokens[1].w = "index" -> _index(self, tokens, subset)
           [] OTHER -> _generic(self, tokens, subset)

\* "torf[ss] = arr" of the evals loops; the first evaluation is the mask
evalsPut(isand, torf, arr) ==
    IF IsErr(arr) \/ torf.k = "none" THEN arr
    ELSE putAll(torf.m, active(isand, torf.m), arr.m)

\* "if evals:" of _and2 (isand) and of _or: the first evaluation is made for
\* subset when no mask exists yet, the later ones for the active atoms
evalsLoop(self, isand, subset, torf, evals) ==
    IF evals = <<>> \/ IsErr(torf) THEN Step(torf, IsErr(torf))
    ELSE IF torf.k # "none" /\ Len(active(isand, torf.m)) = 0 THEN Step(torf, TRUE)
    ELSE evalsLoop(self, isand, subset,
                   evalsPut(isand, torf,
                            evalChecked(method("_eval", self, Head(evals),
                                               IF torf.k = "none" THEN subset
                                               ELSE Idx(active(isand, torf.m))))),
                   Tail(evals))

\* "torf[ss] = arr[ss]" of the unary loop; the first statement is the mask
unaryPut(torf, arr) ==
    IF IsErr(arr) \/ torf.k = "none" THEN arr
    ELSE putFrom(torf.m, nonzero(torf.m), arr.m)

\* "if unary:" of _and2
unaryLoop(self, torf, unary) ==
    IF unary = <<>> \/ IsErr(torf) THEN Step(torf, IsErr(torf))
    ELSE IF torf.k # "none" /\ Len(nonzero(torf.m)) = 0 THEN Step(torf, TRUE)
    ELSE unaryLoop(self, unaryPut(torf, method("_unary", self, Head(unary), None)), Tail(unary))

\* the dispatch of _unary on the keyword, once its argument is evaluated
unaryFunc(self, label, which) ==
    IF IsErr(which) THEN which
    ELSE IF label.l[1].w = "not"
    THEN (IF which.k = "bool" THEN _not(self, <<label, which>>)
          ELSE IF which.k = "data"
          THEN Data([i \in 1..Len(which.m) |-> -which.m[i] - 1])
          ELSE Raise("TypeError", "ufunc invert not supported for the input types"))
    ELSE IF label.l[1].w = "same" THEN _sameas(self, <<label, which>>)
    ELSE IF IsWord(label.l[Len(label.l)], "to") THEN _bondedto(self, <<label, which>>)
    ELSE _within(self, <<label, which>>)

_unary(self, tokens) ==
    unaryFunc(self, tokens[1],
              IF Len(tokens) = 2
              THEN (IF HasDtype(tokens[2]) THEN tokens[2]
                    ELSE method("_eval", self, Tail(tokens), None))
              ELSE IF Len(tokens) = 1 THEN Raise("IndexError", "list index out of range")
              ELSE method("_and2", self, Tail(tokens), None))

\* the end of _and2: "return torf[subset]" unless a loop returned early
andReturn(subset, step) ==
    IF step.done \/ subset.k = "none" THEN step.torf
    ELSE Bool(take(step.torf.m, subset.m))

\* the unary and evals blocks of _and2, after the torfs and flags blocks
andLoops(self, subset, lists, step) ==
    IF step.done THEN step
    ELSE evalsLoop(self, TRUE, subset,
                   unaryLoop(self, step.torf, lists.unary).torf, lists.evals)

\* _and2 once its tokens are sorted into lists
andEval(self, subset, lists) ==
    IF lists.err.k # "none" THEN lists.err
    ELSE andReturn(subset, andLoops(self, subset, lists, torfsAndFlags(self, TRUE, lists)))

_and2(self, tokens, subset) ==
    IF tokens = <<>> THEN Raise("IndexError", "list index out of range")
    ELSE IF IsWord(tokens[1], "and") \/ IsWord(tokens[Len(tokens)], "and")
    THEN SelectionError("and operator must be surrounded with arguments")
    ELSE andEval(self, subset, andLists(self, tokens, NoLists))

_and(self, tokens) == method("_and2", self, tokens, None)

\* the evals block of _or, after the torfs and flags blocks
orLoops(self, lists, step) ==
    IF step.done THEN step.torf
    ELSE evalsLoop(self, FALSE, None, step.torf, lists.evals).torf

\* _or once its tokens are sorted into lists
orEval(self, lists) ==
    IF lists.err.k # "none" THEN lists.err
    ELSE orLoops(self, lists, torfsAndFlags(self, FALSE, lists))

_or(self, tokens) == orEval(self, orLists(self, tokens, NoLists))

_default(self, tokens) ==
    IF Len(tokens) = 1 THEN method("_eval", self, tokens, None)
    ELSE method("_and2", self, tokens, None)

\* ------------------------------------------------------------ the parser
\* A selection string is given as the sequence of its words; a
\* parenthesised part is one group item holding the items between the
\* parentheses.  parseExpr applies the two lowest levels of the operator
\* precedence parser built in Select.__init__: operands separated by "or"
\* go to _or, adjacent operands (with or without "and") to _and, and every
\* parenthesised expression is evaluated by the parser's own action
\* _default.
Group(items) == Tok("group", "", 0, <<>>, items)
ParseException == SelectionError("parsing failed here")

RECURSIVE splitList(_, _)
splitList(alist, sep) ==
    IF alist = <<>> THEN <<<<>>>>
    ELSE LET rest == splitList(Tail(alist), sep)
         IN IF IsWord(Head(alist), sep) THEN <<<<>>>> \o rest
            ELSE <<<<Head(alist)>> \o Head(rest)>> \o Tail(rest)

firstError(tokens) ==
    IF \E i \in 1..Len(tokens) : IsErr(tokens[i])
    THEN tokens[CHOOSE i \in 1..Len(tokens) :
                  IsErr(tokens[i]) /\ \A j \in 1..(i - 1) : ~IsErr(tokens[j])]
    ELSE None

\* an exception raised by a parse action ends the parse
raised(value, tokens) == IF IsErr(value) THEN value ELSE tokens

\* the parse action of a parenthesised expression
parseGroup(self, value) ==
    IF IsErr(value) THEN value ELSE method("_default", self, <<value>>, None)

\* the "and" level: the operands of one piece go to _and
andAction(self, operands) ==
    IF firstError(operands).k # "none" THEN firstError(operands)
    ELSE IF Len(operands) = 1 THEN operands[1]
    ELSE method("_and", self, operands, None)

RECURSIVE joinOr(_)
joinOr(values) ==
    IF Len(values) = 1 THEN values
    ELSE <<Head(values), W("or")>> \o joinOr(Tail(values))

\* the "or" level: the values of the pieces go to _or
orAction(self, values) ==
    IF firstError(values).k # "none" THEN firstError(values)
    ELSE IF Len(values) = 1 THEN values[1]
    ELSE method("_or", self, joinOr(values), None)

\* The arithmetic levels of the parser, tightest first: functions and
\* signs (prefix), powers, * / %, + -, comparisons.  Each level hands a run
\* "operand (operator operand)+" to its parse action.
SignOps == {"+", "-"}
PowOps == {"^", "**"}
MulOps == {"*", "/", "%"}
CompOps == {"<", ">", "<=", ">=", "==", "=", "!="}
isOp(t, ops) == t.k = "w" /\ t.w \in ops
isOperator(t) == isOp(t, SignOps \cup PowOps \cup MulOps \cup CompOps)
isOperand(t) == ~isOperator(t) /\ ~isOp(t, FUNCTIONS \cup {"and"})

\* the parse action of a level on one run
levelAction(self, level, run) ==
    IF firstError(run).k # "none" THEN firstError(run)
    ELSE method(level, self, run, None)

\* prefix operators, applied from the right; operand tells whether the item
\* before items is an operand
RECURSIVE reducePrefix(_, _, _)
prefixed(self, h, operand, rest) ==
    IF isOp(h, FUNCTIONS)
    THEN (IF rest = <<>> \/ ~isOperand(rest[1]) THEN <<ParseException>>
          ELSE <<levelAction(self, "_func", <<h, rest[1]>>)>> \o Tail(rest))
    ELSE IF isOp(h, SignOps) /\ ~operand
    THEN (IF rest = <<>> \/ ~isOperand(rest[1]) THEN <<ParseException>>
          ELSE <<levelAction(self, "_sign", <<h, rest[1]>>)>> \o Tail(rest))
    ELSE <<h>> \o rest

reducePrefix(self, operand, items) ==
    IF items = <<>> THEN <<>>
    ELSE prefixed(self, Head(items), operand,
                  IF isOp(Head(items), FUNCTIONS) /\ Len(items) > 1 /\ isOp(items[2], SignOps)
                  THEN <<ParseException>>
                  ELSE reducePrefix(self, isOperand(Head(items)), Tail(items)))

closeRun(self, level, run) ==
    IF Len(run) <= 1 THEN run ELSE <<levelAction(self, level, run)>>

\* one binary level; run is the expression collected so far
RECURSIVE reduceBinary(_, _, _, _, _)
reduceBinary(self, level, ops, run, items) ==
    IF items = <<>> THEN closeRun(self, level, run)
    ELSE IF isOp(Head(items), ops)
    THEN (IF run = <<>> \/ Len(items) < 2 \/ ~isOperand(items[2]) THEN <<ParseException>>
          ELSE reduceBinary(self, level, ops, run \o <<items[1], items[2]>>,
                            SubSeq(items, 3, Len(items))))
    ELSE IF isOperand(Head(items))
    THEN closeRun(self, level, run) \o reduceBinary(self, level, ops, <<Head(items)>>, Tail(items))
    ELSE closeRun(self, level, run) \o <<Head(items)>>
         \o reduceBinary(self, level, ops, <<>>, Tail(items))

\* an operator that no level has taken has no operands
leftOver(items) ==
    IF \E i \in 1..Len(items) : isOperator(items[i]) \/ isOp(items[i], FUNCTIONS)
    THEN <<ParseException>> ELSE items

\* the levels of operatorPrecedence from the tightest on; every level works
\* on the items the level before it has left
arithmetic(self, items) ==
    CHOOSE compared \in
        {leftOver(reduceBinary(self, "_comp", CompOps, <<>>, added)) :
            added \in
              {reduceBinary(self, "_binop", SignOps, <<>>, multiplied) :
                  multiplied \in
                    {reduceBinary(self, "_binop", MulOps, <<>>, raisedItems) :
                        raisedItems \in
                          {reduceBinary(self, "_pow", PowOps, <<>>, signed) :
                              signed \in {reducePrefix(self, FALSE, given) :
                                             given \in {items}}}}}} : TRUE

RECURSIVE parseExpr(_, _)
parseAnd(self, piece) ==
    IF piece = <<>> \/ IsWord(piece[1], "and") \/ IsWord(piece[Len(piece)], "and")
       \/ (\E i \in 1..(Len(piece) - 1) : IsWord(piece[i], "and") /\ IsWord(piece[i + 1], "and"))
       \/ (\E i \in 1..Len(piece) : piece[i].k = "group" /\ piece[i].l = <<>>)
    THEN ParseException
    ELSE andAction(self, arithmetic(self, [i \in 1..Len(piece) |->
                            IF piece[i].k = "group"
                            THEN parseGroup(self, parseExpr(self, piece[i].l))
                            ELSE piece[i]]))

parseExpr(self, items) ==
    orAction(self, [i \in 1..Len(splitList(items, "or")) |->
                      parseAnd(self, splitList(items, "or")[i])])

parseString(self, selstr) == parseGroup(self, parseExpr(self, selstr))

method(name, self, tokens, subset) ==
    CASE name = "_eval" -> _eval(self, tokens, subset)
      [] name = "_and2" -> _and2(self, tokens, subset)
      [] name = "_unary" -> _unary(self, tokens)
      [] name = "_and" -> _and(self, tokens)
      [] name = "_or" -> _or(self, tokens)
      [] name = "_default" -> _default(self, tokens)
      [] name = "parseString" -> parseString(self, tokens)
      [] name = "_func" -> _func(self, tokens)
      [] name = "_sign" -> _sign(self, tokens)
      [] name = "_pow" -> _pow(self, tokens)
      [] name = "_binop" -> _binop(self, tokens)
      [] name = "_comp" -> _comp(self, tokens)

\* ----------------------------------------------------- the public methods
\* a macro registry is a set of [name, selstr] entries with distinct names
macroNames(macros) == {e.name : e \in macros}

\* "len(selstr.split()) == 1 and selstr.isalnum() and selstr not in MACROS"
isSingleWord(selstr, macros) ==
    /\ Len(selstr) = 1
    /\ selstr[1].k \in {"w", "num"}
    /\ ~(selstr[1].k = "w" /\ selstr[1].w \in macroNames(macros))

\* the outcome of the single word branch when the word is neither none,
\* all nor a flag label
singleWordError(atoms, word) ==
    IF isDataLabel(atoms, word) THEN SelectionError("must be followed by values")
    ELSE SelectionError("is not a valid selection or user data label")

\* the checks of getBoolArray on the value the parser returns
boolArray(torf) ==
    IF IsErr(torf) THEN torf
    ELSE IF torf.k # "bool" THEN SelectionError("")
    ELSE torf

\* Select.__init__: the fields of a new instance (<<>> is None)
NewSelect ==
    [_atoms |-> <<>>, _n_atoms |-> <<>>, _selstr |-> <<>>, _data |-> {},
     _coords |-> <<>>]
\* Select._reset; resetNothing leaves every field as it was
resetNothing(select) == select
_reset(select) ==
    [select EXCEPT !._atoms = <<>>, !._n_atoms = <<>>, !._data = {},
                   !._coords = <<>>]
\* Select._evalAtoms
_evalAtoms(select, atoms) == [select EXCEPT !._atoms = <<atoms>>]
\* getBoolArray up to its call of _evalAtoms; enteredOnce leaves an instance
\* that holds atoms as it is
enteredOnce(select, atoms, selstr) ==
    IF select._atoms # <<>> THEN select
    ELSE [select EXCEPT !._atoms = <<atoms>>, !._n_atoms = <<numAtoms(atoms)>>,
                        !._selstr = <<selstr>>]
entered(select, atoms, selstr) ==
    _evalAtoms([_reset(select) EXCEPT !._n_atoms = <<numAtoms(atoms)>>,
                                      !._selstr = <<selstr>>], atoms)
\* the fields of the instance the evaluation of a string reads
working(select) ==
    [_atoms |-> select._atoms[1], _n_atoms |-> select._n_atoms[1],
     _data |-> select._data, _coords |-> select._coords]
\* The keywords an evaluation hands to _getData are among the fields its
\* string names, the index field of 'same ... as' and the insertion codes
\* that go with residue numbers; the coordinates are fetched for x and for
\* within.
wordsOf(selstr) == {selstr[i].w : i \in {j \in DOMAIN selstr : selstr[j].k = "w"}}
keywordsOf(selstr) ==
    (wordsOf(selstr) \cap (DataLabels \cup {"x", "index"}))
    \cup (IF "same" \in wordsOf(selstr)
          THEN {sameasIndex(w) : w \in wordsOf(selstr) \cap SAMEAS_MAP} ELSE {})
    \cup (IF "resnum" \in wordsOf(selstr) THEN {"icode"} ELSE {})
\* "self._data[keyword] = data" and "self._coords = self._atoms._getCoords()":
\* the instance after the evaluation of selstr
evaluated(select, selstr) ==
    LET self == working(select)
    IN [select EXCEPT
          !._data = @ \cup {[key |-> k, data |-> _getData(self, k)] :
                            k \in {kw \in keywordsOf(selstr) :
                                      _getData(self, kw).k \in {"data", "sdata"}}},
          !._coords = IF wordsOf(selstr) \cap {"x", "within", "exwithin"} # {}
                      THEN <<_getCoords(self)>> ELSE @]
\* getBoolArray from the single word branch on, self being the fields of
\* the instance at that point
getBoolArrayIn(self, atoms, selstr, macros) ==
    IF isSingleWord(selstr, macros)
    THEN LET word == selstr[1]
         IN IF IsWord(word, "none") THEN Bool(zeros(numAtoms(atoms)))
            ELSE IF IsWord(word, "all") THEN Bool(ones(numAtoms(atoms)))
            ELSE IF isFlagLabel(atoms, word) THEN Bool(getFlags(atoms, word.w))
            ELSE singleWordError(atoms, word)
    ELSE boolArray(method("parseString", self, selstr, None))

getBoolArray(atoms, selstr, macros) ==
    getBoolArrayIn(Self(atoms), atoms, selstr, macros)

\* "torf.nonzero()[0]"
indices(torf) == IF IsErr(torf) THEN torf ELSE Idx(nonzero(torf.m))

getIndices(atoms, selstr, macros) ==
    IF isSingleWord(selstr, macros)
    THEN LET word == selstr[1]
         IN IF IsWord(word, "none") THEN Idx(<<>>)
            ELSE IF IsWord(word, "all") THEN Idx(arange(numAtoms(atoms)))
            ELSE IF isFlagLabel(atoms, word) THEN Idx(nonzero(getFlags(atoms, word.w)))
            ELSE singleWordError(atoms, word)
    ELSE indices(getBoolArray(atoms, selstr, macros))

\* ----------------------------------------------------- selection macros
\* prody.atomic.isReserved: flags, data fields and keywords are reserved
isReserved(name) ==
    name \in FlagLabels \cup ATOMIC_FIELDS \cup EvalMap \cup UNARY \cup {"and", "or", "to", "of", "as"}
\* a test of the name that accepts upper case letters
isAnyCase(name) == TRUE
\* "name.isalpha() and name.islower()" for the names of MacroNames
isLowerAlpha(name) == name \in {"cbeta", "hydrated", "protein", "resnum"}
\* the atom group macros are tried on, once the package has set it
ATOMGROUP == WholeView(MkAtomGroup(NAtoms, ones(NAtoms), zeros(NAtoms), TRUE, TRUE))

withMacro(macros, name, selstr) ==
    {e \in macros : e.name # name} \cup {[name |-> name, selstr |-> selstr]}

\* rangeParseAction: tokens is <<start, "to", stop>>, <<start, ":", stop>>
\* or <<start, ":", stop, step>>
rangeParseAction(tokens) ==
    IF tokens[1] > tokens[3]
    THEN SelectionError("range start value is greater than and stop value")
    ELSE IF tokens[1] = tokens[3] THEN Num(tokens[1])
    ELSE IF tokens[2] = "to" THEN Range(tokens[1], tokens[3], "<=")
    ELSE IF Len(tokens) = 4 THEN RangeStep(tokens[1], tokens[3], tokens[4])
    ELSE Range(tokens[1], tokens[3], "<")

\* ------------------------------------------------------ selection strings
And(a, b) == a \o <<W("and")>> \o b
Or(a, b) == a \o <<W("or")>> \o b
Not(a) == <<W("not")>> \o a
Paren(a) == <<Group(a)>>
Within(kw, r, a) == <<W(kw), Num(r), W("of")>> \o a
Bonded(kw, a) == <<W(kw), W("to")>> \o a
BondedN(kw, n, a) == <<W(kw), Num(n), W("to")>> \o a
BondedBy(kw, count, a) == <<W(kw), count, W("to")>> \o a
SameAs(what, a) == <<W("same"), W(what), W("as")>> \o a
Field(label, values) == <<W(label)>> \o values
\* the explicit list a, a+1, ..., b
RECURSIVE Listed(_, _)
Listed(a, b) == IF a > b THEN <<>> ELSE <<Num(a)>> \o Listed(a + 1, b)

Protein == <<W("protein")>>
Water == <<W("water")>>
FlagTerms == {Protein, Water}
\* boolean-producing terms: flags, field terms and unary keyword terms
PairTerms ==
    FlagTerms \cup {Field("resnum", <<Num(1)>>), Not(Water), Within("within", 1, Water)}
Terms ==
    PairTerms \cup {Field("name", <<W("CA")>>), SameAs("residue", Water),
                    BondedN("bonded", 1, Water)}

LogicSelStrs ==
    Terms
    \cup {And(a, b) : a \in PairTerms, b \in PairTerms}
    \cup {Or(a, b) : a \in PairTerms, b \in PairTerms}
    \cup {And(Paren(a), Paren(b)) : a \in PairTerms, b \in PairTerms}
    \cup {Not(a) : a \in Terms} \cup {Not(Not(a)) : a \in Terms}
    \cup {And(Paren(And(a, b)), Field("resnum", <<Num(1)>>)) : a \in FlagTerms, b \in FlagTerms}
    \cup {And(a, Paren(And(b, Field("resnum", <<Num(1)>>)))) : a \in FlagTerms, b \in FlagTerms}

Radii == 0..MaxRadius
WithinSelStrs ==
    {Within(kw, r, Water) : kw \in {"within", "exwithin"}, r \in Radii}
    \cup {And(Within("within", r, Water), Not(Water)) : r \in Radii}
    \cup {And(Paren(Within("within", r, Water)), Not(Water)) : r \in Radii}

Hops == 1..MaxHops
BondedSelStrs ==
    {Bonded(kw, s) : kw \in {"bonded", "exbonded"},
                     s \in {Water, Field("name", <<W("CA")>>)}}
    \cup {BondedN(kw, n, Water) : kw \in {"bonded", "exbonded"}, n \in Hops}
    \cup {BondedBy(kw, Decimal(n, 5), Water) : kw \in {"bonded", "exbonded"}, n \in Hops}

\* number ranges `a to b`, `a:b` and `a:b:c` as the tokenizer hands them to
\* rangeParseAction, explicit lists and single numbers
Numbers == (0 - MaxNegative)..MaxNumber
Steps == 1..MaxStep
RangeTo(a, b) == rangeParseAction(<<a, "to", b>>)
RangePy(a, b) == rangeParseAction(<<a, ":", b>>)
RangePy3(a, b, c) == rangeParseAction(<<a, ":", b, c>>)
RangeTokens ==
    {RangeTo(a, b) : a \in Numbers, b \in Numbers}
    \cup {RangePy(a, b) : a \in Numbers, b \in Numbers}
    \cup {RangePy3(a, b, c) : a \in Numbers, b \in Numbers, c \in Steps}
NumericFields == {"resnum", "resindex", "index", "serial"}
FieldSelStrs ==
    {Field(f, <<t>>) : f \in NumericFields, t \in RangeTokens}
    \cup {Field(f, <<Num(MaxNumber), t>>) : f \in NumericFields, t \in RangeTokens}
    \cup {Field(f, Listed(a, b)) : f \in NumericFields, a \in Numbers, b \in Numbers}
    \cup {Field(f, <<Num(MaxNumber)>> \o Listed(a, b)) :
            f \in NumericFields, a \in Numbers, b \in Numbers}

SingleWords == {<<W("all")>>, <<W("none")>>, Protein, Water, <<W("resnum")>>,
                <<W("cbeta")>>}

\* arithmetic: `l / r` alone, compared, and inside longer runs of * and /
Binop(a, op, b) == a \o <<W(op)>> \o b
Coord == <<W("x")>>
DivLefts == {Coord, <<Num(1)>>, <<W("resnum")>>}
DivRights ==
    {<<Num(0)>>, <<Num(MaxStep)>>, Coord, <<W("resindex")>>, <<W("resnum")>>,
     Paren(Binop(Coord, "-", <<Num(1)>>)), <<W("-"), Num(0)>>}
DivForms(l, r) ==
    {Binop(l, "/", r),
     Binop(Binop(l, "/", r), "<", <<Num(1)>>),
     Binop(Binop(Binop(l, "*", <<Num(MaxStep)>>), "/", r), "<", <<Num(1)>>),
     Binop(Binop(Binop(l, "/", <<Num(MaxStep)>>), "/", r), "<", <<Num(1)>>),
     Binop(Binop(Binop(l, "/", r), "+", <<Num(1)>>), "<", <<Num(1)>>),
     And(Protein, Binop(Binop(l, "/", r), "<", <<Num(1)>>))}
DivSelStrs == UNION {DivForms(l, r) : l \in DivLefts, r \in DivRights}

\* comparisons of two operands and chains of three
CompOperands == {Coord, <<Num(1)>>, <<Num(MaxNumber)>>}
Chain(a, op1, b, op2, c) == Binop(Binop(a, op1, b), op2, c)
CompSelStrs ==
    {Binop(a, op, b) : a \in CompOperands, b \in CompOperands, op \in CompOps}
    \cup {Chain(a, op1, b, op2, c) :
            a \in CompOperands, b \in CompOperands, c \in CompOperands,
            op1 \in CompOps, op2 \in CompOps}

\* the function names of the documentation (lines 230-250)
DocumentedFunctions ==
    {"abs", "acos", "asin", "atan", "ceil", "cos", "cosh", "floor", "exp",
     "log", "log10", "sin", "sinh", "sq", "sqrt", "tan", "tanh"}
Applied(f, arg) == <<W(f)>> \o Paren(arg)
FuncSelStrs ==
    {Binop(Applied(f, Coord), "<", <<Num(1)>>) : f \in DocumentedFunctions \cup FUNCTIONS}
    \cup {Binop(<<W(f)>> \o Coord, "<", <<Num(1)>>) : f \in DocumentedFunctions \cup FUNCTIONS}

\* resnum with insertion codes: '1A', '10A', '1_', '10_', and plain numbers
LongResnum == 10
Numbered(n, c) ==
    IF n = LongResnum
    THEN NumberedWord(IF c = "A" THEN "10A" ELSE "10_", <<1, 0>>, c)
    ELSE NumberedWord(IF c = "A" THEN "1A" ELSE "1_", <<1>>, c)
ResnumValues ==
    {Numbered(n, c) : n \in {1, LongResnum}, c \in {"A", "_"}}
    \cup {Num(1), Num(LongResnum)}
ResnumSelStrs ==
    {Field("resnum", <<v>>) : v \in ResnumValues}
    \cup {And(Protein, Field("resnum", <<v>>)) : v \in ResnumValues}
    \cup {Or(Water, Field("resnum", <<v>>)) : v \in ResnumValues}

\* and-chains of two terms: flags that are full or empty on the field atom
\* groups, field terms with and without atoms, and serial
ChainTerms ==
    {Protein, Water, <<W("none")>>, Field("serial", <<Num(1)>>),
     Field("resnum", <<Num(1)>>), Field("resnum", <<Num(MaxNumber)>>)}
ChainSelStrs == {And(a, b) : a \in ChainTerms, b \in ChainTerms}

ArithSelStrs == DivSelStrs \cup CompSelStrs \cup FuncSelStrs

\* ------------------------------------------------------------- atom sets
\* every flag assignment; bonds and serial numbers set
FlaggedAtomGroups ==
    {MkAtomGroup(NAtoms, p, w, TRUE, TRUE) : p \in Masks(NAtoms), w \in Masks(NAtoms)}
\* the whole group, all atoms but the last, and the last atom alone
SomeViewsOf(ag) ==
    {WholeView(ag), SelectionView(ag, 0..(ag.n - 2)), SelectionView(ag, {ag.n - 1})}
LogicViews == UNION {SomeViewsOf(ag) : ag \in FlaggedAtomGroups}
\* every water assignment with bonds set or not, and the large groups
WaterAtomGroups ==
    {MkAtomGroup(NAtoms, ones(NAtoms), w, b, TRUE) : w \in Masks(NAtoms), b \in BOOLEAN}
WaterViews ==
    UNION {ViewsOf(ag) : ag \in WaterAtomGroups}
    \cup UNION {SomeViewsOf(ag) : ag \in BigAtomGroups}
\* selections that read no flag
FieldAtomGroups ==
    {MkAtomGroup(NAtoms, ones(NAtoms), zeros(NAtoms), TRUE, s) : s \in BOOLEAN}
FieldViews ==
    UNION {ViewsOf(ag) : ag \in FieldAtomGroups}
    \cup SomeViewsOf(BigAtomGroup(SmallQuery))
\* residues 1 and 10 with insertion code A or none; the first atom is water
\* and the others are protein
IcodeAtomGroups ==
    {[MkAtomGroup(NAtoms, [i \in 1..NAtoms |-> i > 1], [i \in 1..NAtoms |-> i = 1],
                  TRUE, TRUE)
         EXCEPT !.resnum = r, !.icode = c] :
        r \in [1..NAtoms -> {1, LongResnum}], c \in [1..NAtoms -> {"", "A"}]}
IcodeViews == UNION {SomeViewsOf(ag) : ag \in IcodeAtomGroups}
\* every view of the group whose coordinates are 0, 1, 3, ...
ArithViews == ViewsOf(MkAtomGroup(NAtoms, ones(NAtoms), zeros(NAtoms), TRUE, TRUE))

\* ------------------------------------------------------------ ModeEnsemble
\* A Python value that is None or a list
NoList == [none |-> TRUE, v |-> <<>>]
List(v) == [none |-> FALSE, v |-> v]
truthy(l) == ~l.none /\ l.v # <<>>
repeat(x, n) == [i \in 1..n |-> x]
\* the value a method returns
Value(v) == Tok("value", "", 0, <<v>>, <<>>)

\* ModeEnsemble.__init__
NewModeEnsemble ==
    [_modesets |-> <<>>, _labels |-> NoList, _weights |-> NoList, _matched |-> FALSE]

\* an NMA, ModeSet or Mode instance, or an object of another class; atoms and
\* modes are its numAtoms() and numModes(), matched tells that matchModes
\* has ordered its modes
ModeObject(kind, atoms, modes) ==
    [kind |-> kind, atoms |-> atoms, modes |-> modes, matched |-> FALSE]

numModeSets(ens) == Len(ens._modesets)
ensembleNumAtoms(ens) == IF ens._modesets # <<>> THEN ens._modesets[1].atoms ELSE 0
ensembleNumModes(ens) == IF ens._modesets # <<>> THEN ens._modesets[1].modes ELSE 0

\* "modeset[:]" of an NMA and "ModeSet(modeset.getModel(), [modeset.getIndex()])"
asModeSet(modeset) ==
    CASE modeset.kind = "NMA" -> [modeset EXCEPT !.kind = "ModeSet"]
      [] modeset.kind = "Mode" -> [modeset EXCEPT !.kind = "ModeSet", !.modes = 1]
      [] OTHER -> modeset

Outcome(ens, err) == [ens |-> ens, err |-> err]

\* the label argument: None, a scalar or a list
NoLabel == [given |-> FALSE, scalar |-> FALSE, v |-> <<>>]
ScalarLabel(label) == [given |-> TRUE, scalar |-> TRUE, v |-> <<label>>]
ListLabel(labels) == [given |-> TRUE, scalar |-> FALSE, v |-> labels]
\* the modeset argument: one instance or a list of instances
OneModeSet(modeset) == [single |-> TRUE, items |-> <<modeset>>]
ModeSetList(modesets) == [single |-> FALSE, items |-> modesets]

UnboundLabels ==
    Raise("UnboundLocalError", "local variable 'labels' referenced before assignment")

\* addModeSet up to the loop: the local labels is bound only when a label
\* is given
labelled(ens, modesets, label) ==
    IF label.given /\ Len(label.v) # Len(modesets)
    THEN Outcome(ens, Raise("ValueError", "labels should have the same length as modesets"))
    ELSE IF ~label.given
    THEN Outcome(ens, UnboundLabels)
    ELSE LET first == IF ~truthy(ens._labels) /\ label.v # <<>>
                      THEN [ens EXCEPT !._labels =
                               List(repeat("", Len(ens._modesets)) \o label.v)]
                      ELSE ens
             second == IF label.v = <<>> /\ truthy(first._labels)
                       THEN [first EXCEPT !._labels =
                                List(@.v \o repeat("", Len(modesets)))]
                       ELSE first
         IN Outcome(second, None)

\* the loop of addModeSet from the i-th modeset on
RECURSIVE addLoop(_, _, _)
addLoop(ens, modesets, i) ==
    IF i > Len(modesets) THEN Outcome(ens, None)
    ELSE LET modeset == asModeSet(modesets[i])
         IN IF modeset.kind # "ModeSet"
            THEN Outcome(ens, Raise("TypeError", "modesets should be a list of Mode or ModeSet instances"))
            ELSE IF ens._modesets = <<>>
            THEN addLoop([ens EXCEPT !._modesets = <<modeset>>], modesets, i + 1)
            ELSE IF modeset.atoms # ensembleNumAtoms(ens)
            THEN Outcome(ens, Raise("ValueError", "to be added, modesets should contain exactly n atoms"))
            ELSE IF modeset.modes < ensembleNumModes(ens)
            THEN Outcome(ens, Raise("ValueError", "to be added, modesets should contain at least n modes"))
            ELSE addLoop([ens EXCEPT !._modesets =
                             Append(@, [modeset EXCEPT !.modes = ensembleNumModes(ens)])],
                         modesets, i + 1)

\* the weights of addModeSet when none are given: ones for every modeset
weighted(ens, modesets) ==
    [ens EXCEPT !._weights = IF @.none THEN List(repeat(1, Len(modesets)))
                             ELSE List(@.v \o repeat(1, Len(modesets)))]

\* ModeEnsemble.addModeSet(modeset, label=label)
addModeSet(ens, modeset, label) ==
    LET named == labelled(ens, modeset.items, label)
        added == addLoop(named.ens, modeset.items, 1)
    IN IF IsErr(named.err) THEN named
       ELSE IF IsErr(added.err) THEN added
       ELSE Outcome(weighted(added.ens, modeset.items), None)

\* list.pop(i) for i >= 0
without(list, i) == [j \in 1..(Len(list) - 1) |-> IF j <= i THEN list[j] ELSE list[j + 1]]

\* the loop of delModeSet: index[j], ..., index[1] are still to be popped
RECURSIVE popLoop(_, _, _)
popLoop(ens, index, j) ==
    IF j = 0 THEN Outcome(ens, None)
    ELSE IF index[j] >= Len(ens._modesets)
    THEN Outcome(ens, Raise("IndexError", "pop index out of range"))
    ELSE LET popped1 == [ens EXCEPT !._modesets = without(@, index[j])]
         IN IF ~truthy(ens._labels) THEN popLoop(popped1, index, j - 1)
            ELSE IF index[j] >= Len(ens._labels.v)
            THEN Outcome(popped1, Raise("IndexError", "pop index out of range"))
            ELSE popLoop([popped1 EXCEPT !._labels = List(without(@.v, index[j]))],
                         index, j - 1)

\* "self._weights[torf, :, :]" with torf False at the positions of index
kept(weights, index) ==
    SelectSeq([i \in 1..Len(weights) |-> <<i - 1, weights[i]>>],
              LAMBDA e : \A j \in 1..Len(index) : index[j] # e[1])

\* ModeEnsemble.delModeSet(index), index a list (a scalar is made a list)
delModeSet(ens, index) ==
    LET n_modesets == numModeSets(ens)
        poppedOut == popLoop(ens, index, Len(index))
        left == kept(ens._weights.v, index)
    IN IF IsErr(poppedOut.err) THEN poppedOut
       ELSE IF ens._weights.none THEN poppedOut
       ELSE IF Len(ens._weights.v) # n_modesets
       THEN Outcome(poppedOut.ens, Raise("IndexError", "boolean index did not match"))
       ELSE Outcome([poppedOut.ens EXCEPT !._weights =
                        List([i \in 1..Len(left) |-> left[i][2]])], None)

\* matchModes(*modesets): the modesets with their modes put in matching order
matchModes(modesets) == [i \in 1..Len(modesets) |-> [modesets[i] EXCEPT !.matched = TRUE]]

\* ModeEnsemble.match()
match(ens) ==
    [ens EXCEPT !._modesets = IF @ # <<>> THEN matchModes(@) ELSE @,
                !._matched = TRUE]

\* ModeEnsemble.isMatched()
isMatched(ens) == ens._matched

\* ------------------------------------------------------------------ state
\* atoms, selstr: the arguments of the caller; engine: the Select instance;
\* call, ret: the last operation and what it returned or raised;
\* MACROS, SETTINGS: the module's macro registry and the saved settings;
\* modeens: a ModeEnsemble instance
VARIABLES atoms, selstr, engine, call, ret, MACROS, SETTINGS, modeens,
          frames
vars == <<atoms, selstr, engine, call, ret, MACROS, SETTINGS, modeens,
          frames>>

\* trial: what the trial evaluation of a macro raised or returned; warned:
\* LOGGER.warn was called; saved: SETTINGS.save() was called
NoCall == [op |-> "", name |-> "", selstr |-> <<>>, trial |-> None,
           warned |-> FALSE, saved |-> FALSE, args |-> <<>>]
Call(op) == [NoCall EXCEPT !.op = op]
MacroCall(op, name, body, trial, warn, write) ==
    [op |-> op, name |-> name, selstr |-> body, trial |-> trial,
     warned |-> warn, saved |-> write, args |-> <<>>]
MethodCall(op, args) == [NoCall EXCEPT !.op = op, !.args = args]

\* Select.__init__ and the import of the module with no macros configured
Constructed ==
    /\ engine = NewSelect
    /\ frames = <<>>
    /\ call = NoCall
    /\ ret = None
    /\ MACROS = {}
    /\ SETTINGS = [selection_macros |-> {}, saved |-> {}]
    /\ modeens = NewModeEnsemble

\* the arguments of the caller: an Atomic instance and a selection string
Called(views, selstrs) == atoms \in views /\ selstr \in selstrs

Init ==
    /\ \/ Called(LogicViews, LogicSelStrs)
       \/ Called(WaterViews, WithinSelStrs \cup BondedSelStrs)
       \/ Called(FieldViews, FieldSelStrs)
       \/ Called(LogicViews \cup FieldViews, SingleWords)
       \/ Called(ArithViews, ArithSelStrs)
       \/ Called(IcodeViews, ResnumSelStrs)
       \/ Called(FieldViews, ChainSelStrs)
    /\ Constructed

\* Select.getBoolArray(atoms, selstr)
GetBoolArray ==
    /\ engine' = IF isSingleWord(selstr, MACROS)
                 THEN entered(engine, atoms, selstr)
                 ELSE evaluated(entered(engine, atoms, selstr), selstr)
    /\ ret' = getBoolArray(atoms, selstr, MACROS)
    /\ call' = Call("getBoolArray")
    /\ UNCHANGED <<atoms, selstr, MACROS, SETTINGS, modeens, frames>>

\* Select.getIndices(atoms, selstr)
GetIndices ==
    /\ engine' = IF isSingleWord(selstr, MACROS)
                 THEN _evalAtoms(engine, atoms)
                 ELSE evaluated(entered(engine, atoms, selstr), selstr)
    /\ ret' = getIndices(atoms, selstr, MACROS)
    /\ call' = Call("getIndices")
    /\ UNCHANGED <<atoms, selstr, MACROS, SETTINGS, modeens, frames>>

\* the except clause of the trial: a SelectionError is not propagated
swallowedNever(trial) == FALSE
swallowed(trial) == IsErr(trial) /\ trial.w = "SelectionError"
\* SETTINGS['selection_macros'] = MACROS; SETTINGS.save()
saveNever(settings, macros) == settings
save(settings, macros) == [selection_macros |-> macros, saved |-> macros]
\* MACROS.pop(name) on a registry that has the name
poppedAll(macros, name) == {}
popped(macros, name) == {e \in macros : e.name # name}

\* defSelectionMacro(name, selstr); trial is what the evaluation of the
\* macro on ATOMGROUP returned or raised
Defined(name, body, trial) ==
    LET invalid == isReserved(name) \/ ~isLowerAlpha(name)
        defined == ~invalid /\ ~IsErr(trial)
        warned == ~invalid /\ swallowed(trial)
    IN /\ call' = MacroCall("defSelectionMacro", name, body,
                            IF invalid THEN None ELSE trial, warned, defined)
       /\ ret' = IF invalid THEN Raise("ValueError", "not a valid macro name")
                 ELSE IF IsErr(trial) /\ ~swallowed(trial) THEN trial
                 ELSE None
       /\ MACROS' = IF defined THEN withMacro(MACROS, name, body) ELSE MACROS
       /\ SETTINGS' = IF defined
                      THEN save(SETTINGS, withMacro(MACROS, name, body))
                      ELSE SETTINGS
       /\ UNCHANGED <<atoms, selstr, engine, modeens, frames>>

\* the module itself leaves ATOMGROUP at None (line 402): the trial then
\* raises AttributeError unless the package has set the test structure
DefSelectionMacro(name, body) ==
    \/ Defined(name, body, getIndices(ATOMGROUP, body, MACROS))
    \/ Defined(name, body, Raise("AttributeError", "NoneType has no attribute select"))

\* delSelectionMacro(name)
DelSelectionMacro(name) ==
    LET found == name \in macroNames(MACROS)
    IN /\ call' = MacroCall("delSelectionMacro", name, <<>>, None, ~found, found)
       /\ ret' = None
       /\ MACROS' = IF found THEN popped(MACROS, name) ELSE MACROS
       /\ SETTINGS' = IF found THEN save(SETTINGS, popped(MACROS, name))
                      ELSE SETTINGS
       /\ UNCHANGED <<atoms, selstr, engine, modeens, frames>>

Next ==
    \/ GetBoolArray
    \/ GetIndices

Spec == Init /\ [][Next]_vars

\* ------------------------------------------------ selections with macros
MacroNames == {"cbeta", "hydrated", "protein", "CBeta"}
Cbeta == And(Field("name", <<W("CB")>>), Protein)
MacroBodies == {Cbeta, Water, <<W("foo")>>, Bonded("bonded", Protein)}
MacroSelStrs ==
    {<<W("cbeta")>>, <<W("hydrated")>>, And(<<W("cbeta")>>, Water),
     And(Water, <<W("cbeta")>>), Cbeta, Water, And(Cbeta, Water)}
\* the last atom is water, the others are protein
MacroViews ==
    ViewsOf(MkAtomGroup(NAtoms, [i \in 1..NAtoms |-> i < NAtoms],
                        [i \in 1..NAtoms |-> i = NAtoms], TRUE, TRUE))

MacroInit ==
    /\ Called(MacroViews, MacroSelStrs)
    /\ Constructed

MacroNext ==
    \/ GetBoolArray
    \/ GetIndices
    \/ \E name \in MacroNames, body \in MacroBodies : DefSelectionMacro(name, body)
    \/ \E name \in MacroNames : DelSelectionMacro(name)

MacroSpec == MacroInit /\ [][MacroNext]_vars

\* ---------------------------------------------------- mode ensembles
MaxModeSets == 2
MaxModes == 2
\* the instances handed to addModeSet: mode sets of all atoms with one mode
\* and with more, a model of fewer atoms, a single mode, and an instance of
\* a class that holds no modes
ModeObjects ==
    {ModeObject("ModeSet", NAtoms, MaxModes), ModeObject("ModeSet", NAtoms, 1),
     ModeObject("NMA", NAtoms - 1, MaxModes), ModeObject("Mode", NAtoms, MaxModes),
     ModeObject("Ensemble", NAtoms, MaxModes)}
ModeSetArgs ==
    {OneModeSet(m) : m \in ModeObjects}
    \cup {ModeSetList(<<m1, m2>>) : m1 \in ModeObjects, m2 \in ModeObjects}
LabelArgs ==
    {NoLabel, ScalarLabel("a"), ListLabel(<<"a">>), ListLabel(<<"a", "b">>)}
IndexArgs ==
    {<<i>> : i \in 0..(MaxModeSets - 1)}
    \cup {<<i, j>> : i \in 0..(MaxModeSets - 1), j \in 0..(MaxModeSets - 1)}

\* ModeEnsemble.addModeSet(modeset, label=label)
AddModeSet(modeset, label) ==
    /\ numModeSets(modeens) + Len(modeset.items) <= MaxModeSets
    /\ Len(modeens._labels.v) + Len(modeset.items) <= MaxModeSets + 1
    /\ Len(modeens._weights.v) + Len(modeset.items) <= MaxModeSets + 1
    /\ modeens' = addModeSet(modeens, modeset, label).ens
    /\ ret' = addModeSet(modeens, modeset, label).err
    /\ call' = MethodCall("addModeSet", <<modeset, label>>)
    /\ UNCHANGED <<atoms, selstr, engine, MACROS, SETTINGS, frames>>

\* ModeEnsemble.delModeSet(index)
DelModeSet(index) ==
    /\ modeens' = delModeSet(modeens, index).ens
    /\ ret' = delModeSet(modeens, index).err
    /\ call' = MethodCall("delModeSet", <<index>>)
    /\ UNCHANGED <<atoms, selstr, engine, MACROS, SETTINGS, frames>>

\* ModeEnsemble.match()
Match ==
    /\ modeens' = match(modeens)
    /\ ret' = None
    /\ call' = MethodCall("match", <<>>)
    /\ UNCHANGED <<atoms, selstr, engine, MACROS, SETTINGS, frames>>

\* ModeEnsemble.isMatched()
IsMatched ==
    /\ ret' = Value(isMatched(modeens))
    /\ call' = MethodCall("isMatched", <<>>)
    /\ UNCHANGED <<atoms, selstr, engine, MACROS, SETTINGS, modeens, frames>>

\* ModeEnsemble.numModeSets()
NumModeSets ==
    /\ ret' = Value(numModeSets(modeens))
    /\ call' = MethodCall("numModeSets", <<>>)
    /\ UNCHANGED <<atoms, selstr, engine, MACROS, SETTINGS, modeens, frames>>

EnsembleInit ==
    /\ atoms = ATOMGROUP
    /\ selstr = <<W("all")>>
    /\ Constructed

EnsembleNext ==
    \/ \E modeset \in ModeSetArgs, label \in LabelArgs : AddModeSet(modeset, label)
    \/ \E index \in IndexArgs : DelModeSet(index)
    \/ Match
    \/ IsMatched
    \/ NumModeSets

EnsembleSpec == EnsembleInit /\ [][EnsembleNext]_vars

\* ---------------------------------------------------------------- claims
\* what a call returned: a mask, an index array or a raised exception
Returned(op) == call.op = op
IsMask(t) == t.k = "bool"
SameOutcome(r1, r2) ==
    /\ r1.k = r2.k
    /\ r1.w = r2.w
    /\ r1.n = r2.n
    /\ r1.m = r2.m
    /\ r1.l = r2.l
\* the number of entities of the view passed to the call
EntityCount == IF atoms.whole THEN atoms.ag.n ELSE Len(atoms.indices)
\* the mask of a selection string on the view of the call
MaskOf(s) == getBoolArray(atoms, s, MACROS)
HasTrue(mask) == \E i \in 1..Len(mask) : mask[i]
HasFalse(mask) == \E i \in 1..Len(mask) : ~mask[i]

\* C1: 'A and B' returns the outcome of 'B and A' for all boolean terms A
\* and B, terms that start with not or within included ('not A and B' is
\* 'B and not A').
C1_AndCommutes ==
    \A a \in PairTerms, b \in PairTerms :
        (Returned("getBoolArray") /\ selstr = And(a, b))
            => SameOutcome(ret, MaskOf(And(b, a)))

\* C2: once a macro is defined with a body, the selection string that is
\* the macro's name returns the outcome of the body.
C2_MacroIsBody ==
    \A e \in MACROS :
        (Returned("getBoolArray") /\ selstr = <<W(e.name)>>)
            => SameOutcome(ret, MaskOf(e.selstr))

\* C3: 'exwithin r of S' returns the outcome of 'within r of S and not S'.
C3_ExwithinIsWithinAndNot ==
    \A r \in Radii :
        (Returned("getBoolArray") /\ selstr = Within("exwithin", r, Water))
            => SameOutcome(ret, MaskOf(And(Within("within", r, Water), Not(Water))))

\* C4: with bonds not set, every bonded and exbonded selection, with a hop
\* count or without, raises the SelectionError "bonds are not set".
C4_BondsNotSet ==
    (Returned("getBoolArray") /\ ~atoms.ag.bonds /\ selstr \in BondedSelStrs)
        => /\ ret.k = "err"
           /\ ret.w = "SelectionError"
           /\ ret.l = <<"bonds are not set">>

\* C5: every mask getBoolArray returns has as many entries as the view it
\* was called with has atoms.
C5_MaskLength ==
    (Returned("getBoolArray") /\ IsMask(ret)) => Len(ret.m) = EntityCount

\* C6: the mask 'exwithin r of S' returns selects no atom of S.
C6_ExwithinExcludes ==
    \A r \in Radii :
        (Returned("getBoolArray") /\ selstr = Within("exwithin", r, Water) /\ IsMask(ret))
            => /\ Len(ret.m) = EntityCount
               /\ \A i \in 1..EntityCount : ~(ret.m[i] /\ MaskOf(Water).m[i])

\* C6 witness: an exwithin search made with the large strategy (at least
\* SmallQuery query atoms) that selected an atom.
C6_Witness ==
    /\ Returned("getBoolArray")
    /\ selstr = Within("exwithin", 1, Water)
    /\ IsMask(ret)
    /\ HasTrue(ret.m)
    /\ Len(nonzero(MaskOf(Water).m)) >= SmallQuery

\* C7: for every term X that evaluates to a mask, 'not X' returns the
\* element-wise complement of that mask over the atoms of the view and
\* 'not not X' returns the mask of X.
C7_NotNot ==
    \A x \in Terms :
        (Returned("getBoolArray") /\ IsMask(MaskOf(x)))
            => /\ selstr = Not(x) =>
                    /\ IsMask(ret)
                    /\ Len(ret.m) = EntityCount
                    /\ ret.m = invert(MaskOf(x).m)
               /\ selstr = Not(Not(x)) =>
                    /\ IsMask(ret)
                    /\ ret.m = MaskOf(x).m

\* C7 witness: 'not not protein' returned a mask with selected and
\* unselected atoms.
C7_Witness ==
    /\ Returned("getBoolArray")
    /\ selstr = Not(Not(Protein))
    /\ IsMask(ret)
    /\ HasTrue(ret.m)
    /\ HasFalse(ret.m)

\* C8: on resnum, a generic numeric field, index and serial, the range
\* 'a to b' with a < b returns the outcome of the list a, a+1, ..., b.
C8_RangeToIsList ==
    \A f \in NumericFields, a \in Numbers, b \in Numbers :
        (Returned("getBoolArray") /\ a < b /\ selstr = Field(f, <<RangeTo(a, b)>>))
            => SameOutcome(ret, MaskOf(Field(f, Listed(a, b))))

\* the values of a field over the atoms of the view of the call
ValuesOf(f) == atomsGetData(atoms, f).m
\* v is one of a, a+c, a+2c, ... below b
Stepped(v, a, b, c) == v >= a /\ v < b /\ (v - a) % c = 0
\* fields whose ranges are compared with the values of the atoms
ComparedFields == {"resnum", "resindex"}

C10_AllNone ==
    /\ (Returned("getBoolArray") /\ selstr = <<W("all")>>)
          => IsMask(ret) /\ ret.m = [i \in 1..EntityCount |-> TRUE]
    /\ (Returned("getBoolArray") /\ selstr = <<W("none")>>)
          => IsMask(ret) /\ ret.m = [i \in 1..EntityCount |-> FALSE]
    /\ (Returned("getIndices") /\ selstr = <<W("all")>>)
          => ret.k = "idx" /\ ret.m = [i \in 1..EntityCount |-> i - 1]
    /\ (Returned("getIndices") /\ selstr = <<W("none")>>)
          => ret.k = "idx" /\ ret.m = <<>>

\* C10 witness: getIndices of 'all' on a selection of some atoms of a group.
C10_Witness ==
    /\ Returned("getIndices")
    /\ selstr = <<W("all")>>
    /\ ~atoms.whole
    /\ ret.k = "idx"
    /\ Len(ret.m) = NAtoms - 1

\* the values an operand of the arithmetic strings has on the view of the call
CoordsOf == atomsGetCoords(atoms)
HasValue(arr, v) == \E i \in 1..Len(arr) : arr[i] = v
\* the right operand r is zero or an array that contains a zero
RightHasZero(r) ==
    \/ r \in {<<Num(0)>>, <<W("-"), Num(0)>>}
    \/ r = Coord /\ HasValue(CoordsOf, 0)
    \/ r = <<W("resindex")>> /\ HasValue(ValuesOf("resindex"), 0)
    \/ r = Paren(Binop(Coord, "-", <<Num(1)>>)) /\ HasValue(CoordsOf, 1)
ZeroDivision == SelectionError("zero division error")

\* C11: a division whose right operand is zero, or an array that contains a
\* zero, aborts the selection with the zero-division selection error,
\* whatever the left operand and whatever surrounds the division.
C11_ZeroDivisionAborts ==
    \A l \in DivLefts, r \in DivRights :
        (call.op \in {"getBoolArray", "getIndices"}
            /\ selstr \in DivForms(l, r) /\ RightHasZero(r))
        => ret = ZeroDivision

\* C11 witness: '1 / x < 1' on a selection of two atoms one of which has
\* x = 0 raised the zero-division error.
C11_Witness ==
    /\ Returned("getBoolArray")
    /\ selstr = Binop(Binop(<<Num(1)>>, "/", Coord), "<", <<Num(1)>>)
    /\ ~atoms.whole
    /\ Len(atoms.indices) = 2
    /\ HasValue(CoordsOf, 0)
    /\ ret = ZeroDivision

\* the last call was defSelectionMacro or delSelectionMacro
Registered(name) == name \in macroNames(MACROS)
ValidName(name) == ~isReserved(name) /\ isLowerAlpha(name)

\* C12: defSelectionMacro with a valid name whose body raised SelectionError
\* in the trial raises nothing, warns and leaves MACROS and SETTINGS as
\* they were; a body enters MACROS only when its trial raised nothing.
C12_TrialGuardsRegistry ==
    [][/\ (call'.op = "defSelectionMacro" /\ ValidName(call'.name)
            /\ IsErr(call'.trial) /\ call'.trial.w = "SelectionError")
          => /\ ret' = None
             /\ call'.warned
             /\ MACROS' = MACROS
             /\ SETTINGS' = SETTINGS
       /\ \A e \in MACROS' \ MACROS :
             /\ call'.op = "defSelectionMacro"
             /\ e = [name |-> call'.name, selstr |-> call'.selstr]
             /\ ~IsErr(call'.trial)]_vars

\* C12 witness: 'foo' was offered as the body of cbeta while another macro
\* was registered, and only a warning came of it.
C12_Witness ==
    /\ call.op = "defSelectionMacro"
    /\ call.name = "cbeta"
    /\ call.selstr = <<W("foo")>>
    /\ IsErr(call.trial)
    /\ call.warned
    /\ ret = None
    /\ macroNames(MACROS) = {"hydrated"}

\* C13: defSelectionMacro with a name that is reserved or not all lower case
\* letters raises ValueError and leaves MACROS and SETTINGS as they were.
C13_InvalidName ==
    [][(call'.op = "defSelectionMacro"
          /\ call'.name \in {"protein", "resnum", "CBeta"})
       => /\ ret'.k = "err"
          /\ ret'.w = "ValueError"
          /\ MACROS' = MACROS
          /\ SETTINGS' = SETTINGS]_vars

\* C13 witness: 'CBeta' was refused while a macro was registered.
C13_Witness ==
    /\ call.op = "defSelectionMacro"
    /\ call.name = "CBeta"
    /\ IsErr(ret)
    /\ ret.w = "ValueError"
    /\ MACROS # {}

\* C14: the saved macro table is the registry in memory after every sequence
\* of defSelectionMacro and delSelectionMacro; a call wrote the table exactly
\* when it registered or removed a macro.
C14_SavedIsRegistry ==
    /\ SETTINGS.saved = MACROS
    /\ SETTINGS.selection_macros = MACROS
    /\ call.op \in {"defSelectionMacro", "delSelectionMacro"}
          => (call.saved <=> (ret = None /\ ~call.warned))

\* C14 witness: a deletion wrote a table that still holds one macro.
C14_Witness ==
    /\ call.op = "delSelectionMacro"
    /\ call.saved
    /\ Cardinality(MACROS) = 1
    /\ SETTINGS.saved = MACROS

\* C15: delSelectionMacro of a name that is not registered raises nothing,
\* warns and leaves MACROS and SETTINGS as they were; of a registered name
\* it removes that entry and no other.
C15_DeleteFrame ==
    [][call'.op = "delSelectionMacro"
       => /\ ret' = None
          /\ IF Registered(call'.name)
             THEN /\ MACROS' = {e \in MACROS : e.name # call'.name}
                  /\ Cardinality(MACROS') = Cardinality(MACROS) - 1
             ELSE /\ call'.warned
                  /\ MACROS' = MACROS
                  /\ SETTINGS' = SETTINGS]_vars

\* C15 witness: a name that was not registered was deleted while another
\* macro was registered.
C15_Witness ==
    /\ call.op = "delSelectionMacro"
    /\ call.name = "cbeta"
    /\ call.warned
    /\ ret = None
    /\ macroNames(MACROS) = {"hydrated"}

\* C16: every function name of the documentation applied to one numeric
\* argument is evaluated as a function: 'f(x) < 1' gives a mask.
C16_DocumentedFunctions ==
    \A f \in DocumentedFunctions :
        (Returned("getBoolArray")
            /\ selstr = Binop(Applied(f, Coord), "<", <<Num(1)>>))
        => IsMask(ret)

\* what 'resnum v' means for atom i of the view: residue number n with
\* insertion code c, with no insertion code for '_', with any for a number
ResnumOf(i) == ValuesOf("resnum")[i]
IcodeOf(i) == ValuesOf("icode")[i]
Designates(v, i) ==
    IF v.k = "num" THEN ResnumOf(i) = v.n
    ELSE /\ ResnumOf(i) = (IF Len(v.m) = 2 THEN LongResnum ELSE 1)
         /\ IcodeOf(i) = (IF v.l[1] = "_" THEN "" ELSE v.l[1])
FlagOf(f, i) == getFlags(atoms, f)[i]

\* C17: 'resnum <n><c>' is the mask of the atoms of residue n with
\* insertion code c ('_' for none, no code for any), alone and as the
\* second term of an and-chain or an or-chain.
C17_ResnumIcode ==
    \A v \in ResnumValues :
        /\ (Returned("getBoolArray") /\ selstr = Field("resnum", <<v>>))
              => /\ IsMask(ret)
                 /\ ret.m = [i \in 1..EntityCount |-> Designates(v, i)]
        /\ (Returned("getBoolArray") /\ selstr = And(Protein, Field("resnum", <<v>>)))
              => /\ IsMask(ret)
                 /\ ret.m = [i \in 1..EntityCount |->
                               FlagOf("protein", i) /\ Designates(v, i)]
        /\ (Returned("getBoolArray") /\ selstr = Or(Water, Field("resnum", <<v>>)))
              => /\ IsMask(ret)
                 /\ ret.m = [i \in 1..EntityCount |->
                               FlagOf("water", i) \/ Designates(v, i)]

\* the instances of a modeset argument can be added to the ensemble: they
\* hold modes, as many atoms as the ensemble and no fewer modes
Addable(ens, modesets) ==
    \A i \in 1..Len(modesets) :
        /\ modesets[i].kind \in {"NMA", "ModeSet", "Mode"}
        /\ modesets[i].atoms = (IF ens._modesets # <<>> THEN ensembleNumAtoms(ens)
                                ELSE modesets[1].atoms)
        /\ asModeSet(modesets[i]).modes >=
              (IF ens._modesets # <<>> THEN ensembleNumModes(ens)
               ELSE asModeSet(modesets[1]).modes)

\* C18: addModeSet of addable modesets with no weights and no label raises
\* nothing and numModeSets() grows by the number of modesets handed in, on
\* an empty ensemble and on one that holds modesets.
C18_AddWithDefaults ==
    [][(call'.op = "addModeSet" /\ ~call'.args[2].given
          /\ Addable(modeens, call'.args[1].items))
       => /\ ret' = None
          /\ numModeSets(modeens') = numModeSets(modeens) + Len(call'.args[1].items)]_vars

\* C19: isMatched() returns True only when every modeset of the ensemble
\* has its modes in matching order, that is when no modeset came in after
\* the last match().
C19_MatchedMeansAllMatched ==
    (Returned("isMatched") /\ ret = Value(TRUE))
    => \A i \in 1..numModeSets(modeens) : modeens._modesets[i].matched

\* the value of an operand of a comparison for atom i of the view
OperandAt(operand, i) ==
    IF operand = Coord THEN Rat(CoordsOf[i], 1) ELSE Rat(operand[1].n, 1)

\* C20: the mask of 'a op1 b op2 c' is, atom by atom, (a op1 b) and
\* (b op2 c).
C20_ChainIsAdjacentPairs ==
    (Returned("getBoolArray") /\ selstr \in CompSelStrs /\ Len(selstr) = 5 /\ IsMask(ret))
    => \A a \in CompOperands, b \in CompOperands, c \in CompOperands,
          op1 \in CompOps, op2 \in CompOps :
           selstr = Chain(a, op1, b, op2, c)
           => ret.m = [i \in 1..EntityCount |->
                          /\ compares(op1, OperandAt(a, i), OperandAt(b, i))
                          /\ compares(op2, OperandAt(b, i), OperandAt(c, i))]

\* the outcome of 'A and B' when A is evaluated first and B only if A has
\* left atoms: the error of A, the empty mask of A, the error of B, or the
\* mask of the atoms of both
Narrowed(a, b) ==
    IF IsErr(a) \/ ~HasTrue(a.m) THEN a
    ELSE IF IsErr(b) THEN b
    ELSE Bool([i \in 1..Len(a.m) |-> a.m[i] /\ b.m[i]])

\* C21: 'A and B' gives what a left-to-right narrowing gives: the terms are
\* evaluated in the order they are written, B only over the atoms A left
\* and not at all when A left none, so the errors are those of the terms
\* that this evaluation reaches.
C21_LeftToRight ==
    \A a \in ChainTerms, b \in ChainTerms :
        (Returned("getBoolArray") /\ selstr = And(a, b))
        => SameOutcome(ret, Narrowed(MaskOf(a), MaskOf(b)))

\* the atom of the group behind position p of the view, and the bonds
\* between the atoms of the view
GlobalOf(p) == IF atoms.whole THEN p - 1 ELSE atoms.indices[p]
Linked(p, q) == GlobalOf(q) \in atoms.ag.bmap[GlobalOf(p) + 1]
\* the positions within n bonds of the positions S
RECURSIVE Reach(_, _)
Reach(S, n) ==
    IF n = 0 THEN S
    ELSE Reach(S \cup {q \in 1..EntityCount : \E p \in S : Linked(p, q)}, n - 1)
Positions(mask) == {i \in 1..Len(mask) : mask[i]}

\* C22: with bonds set, 'bonded n to water' is the mask of the atoms within
\* n bonds of a water atom, the water atoms included, and 'exbonded n to
\* water' is that mask without the water atoms.
C22_BondedReach ==
    \A n \in Hops :
        /\ (Returned("getBoolArray") /\ atoms.ag.bonds
               /\ selstr = BondedN("bonded", n, Water))
              => /\ IsMask(ret)
                 /\ Positions(ret.m) = Reach(Positions(MaskOf(Water).m), n)
        /\ (Returned("getBoolArray") /\ atoms.ag.bonds
               /\ selstr = BondedN("exbonded", n, Water))
              => /\ IsMask(ret)
                 /\ Positions(ret.m) =
                      Reach(Positions(MaskOf(Water).m), n) \ Positions(MaskOf(Water).m)

\* C23: a hop count that is no integer is truncated: with bonds set,
\* 'bonded n.5 to water' gives the mask of 'bonded n to water', and so for
\* exbonded.
C23_HopCountTruncated ==
    \A n \in Hops, kw \in {"bonded", "exbonded"} :
        (Returned("getBoolArray") /\ atoms.ag.bonds
            /\ selstr = BondedBy(kw, Decimal(n, 5), Water))
        => /\ IsMask(ret)
           /\ ret = MaskOf(BondedN(kw, n, Water))

\* C24: a serial selection on a dataset whose serial numbers are not set
\* aborts with a SelectionError (neither a mask nor another kind of error).
C24_SerialUnsetSelectionError ==
    (Returned("getBoolArray") /\ ~atoms.ag.serials
        /\ selstr = Field("serial", <<Num(1)>>))
    => (IsErr(ret) /\ ret.w = "SelectionError")

\* ------------------------------------------------------ macro expansion
\* evalMacros works on the characters of the selection string: in this part
\* a string is the sequence of its characters, and so are the name and the
\* body of a macro
MaxText == 4
Str(chars) == Tok("str", "", 0, <<>>, chars)
\* the class '[( )]' of the pattern
Delimiters == {"(", " ", ")"}
\* re_compile('[( )]' + key + '[( )]') matches the characters of s from i on
matchesAt(s, i, key) ==
    /\ i + Len(key) + 1 <= Len(s)
    /\ s[i] \in Delimiters
    /\ SubSeq(s, i + 1, i + Len(key)) = key
    /\ s[i + Len(key) + 1] \in Delimiters
\* (' (' + macro + ') ').join(regex.split(selstr)), from character i on:
\* split takes the leftmost matches that do not overlap
RECURSIVE splitJoin(_, _, _, _)
splitJoin(s, i, key, macro) ==
    IF i > Len(s) THEN <<>>
    ELSE IF matchesAt(s, i, key)
    THEN <<" ", "(">> \o macro \o <<")", " ">>
         \o splitJoin(s, i + Len(key) + 2, key, macro)
    ELSE <<s[i]>> \o splitJoin(s, i + 1, key, macro)
\* for key, macro in MACROS.items()
RECURSIVE macrosLoop(_, _)
macrosLoop(s, items) ==
    IF items = <<>> THEN s
    ELSE macrosLoop(splitJoin(s, 1, Head(items).name, Head(items).selstr),
                    Tail(items))
\* evalMacros(selstr), items being MACROS.items() in the order of the loop
evalMacros(s, items) ==
    IF items = <<>> THEN s
    ELSE LET padded == macrosLoop(<<" ">> \o s \o <<" ">>, items)
         IN SubSeq(padded, 2, Len(padded) - 1)
\* the orders a dictionary may hand its items out in
itemsOf(macros) ==
    {q \in [1..Cardinality(macros) -> macros] :
        \A i \in DOMAIN q, j \in DOMAIN q : i # j => q[i] # q[j]}

Letters == {"m", "x"}
Texts ==
    UNION {[1..n -> Letters \cup Delimiters] : n \in 1..MaxText}
Macro(name, body) == [name |-> name, selstr |-> body]
Registries ==
    {{}, {Macro(<<"m">>, <<"x">>)}, {Macro(<<"m">>, <<"x", " ", "x">>)},
     {Macro(<<"m">>, <<"x">>), Macro(<<"x">>, <<"m">>)}}

\* the module is imported with the macros of the settings
ExpandInit ==
    /\ selstr \in Texts
    /\ MACROS \in Registries
    /\ atoms = ATOMGROUP
    /\ engine = NewSelect
    /\ frames = <<>>
    /\ call = NoCall
    /\ ret = None
    /\ SETTINGS = [selection_macros |-> MACROS, saved |-> MACROS]
    /\ modeens = NewModeEnsemble

\* evalMacros(selstr)
EvalMacros ==
    \E items \in itemsOf(MACROS) :
        /\ ret' = Str(evalMacros(selstr, items))
        /\ call' = MethodCall("evalMacros", items)
        /\ UNCHANGED <<atoms, selstr, engine, MACROS, SETTINGS, modeens, frames>>

ExpandNext == EvalMacros

ExpandSpec == ExpandInit /\ [][ExpandNext]_vars

WholeWordAt(s, i, key) ==
    /\ i + Len(key) - 1 <= Len(s)
    /\ SubSeq(s, i, i + Len(key) - 1) = key
    /\ (i = 1 \/ s[i - 1] \in Delimiters)
    /\ (i + Len(key) > Len(s) \/ s[i + Len(key)] \in Delimiters)
\* s from character i on with every whole word key replaced by '(body)'
RECURSIVE Replaced(_, _, _, _)
Replaced(s, i, key, body) ==
    IF i > Len(s) THEN <<>>
    ELSE IF WholeWordAt(s, i, key)
    THEN <<"(">> \o body \o <<")">> \o Replaced(s, i + Len(key), key, body)
    ELSE <<s[i]>> \o Replaced(s, i + 1, key, body)

\* C25: with one macro registered, the expansion of a string is the string
\* with every whole-word occurrence of the name replaced by '(body)' and all
\* other characters, the surrounding parentheses included, left in place.
C25_EveryWholeWord ==
    \A e \in MACROS :
        (Returned("evalMacros") /\ MACROS = {e})
        => ret = Str(Replaced(selstr, 1, e.name, e.selstr))

\* ------------------------------------------- calls on one instance
\* frames holds the calls of getBoolArray on the instance that have entered
\* and not returned: their arguments, whether the instance held cache
\* entries or coordinates of an earlier call when the call entered (stale),
\* and whether another call has entered since (overtaken).
MaxFrames == 2
SessionGroup ==
    MkAtomGroup(NAtoms, ones(NAtoms), [i \in 1..NAtoms |-> i = NAtoms], TRUE, TRUE)
SessionViews == SomeViewsOf(SessionGroup)
SessionSelStrs ==
    {Field("resnum", <<Num(1)>>), Within("within", 1, Water), Water,
     Field("colour", <<Num(1)>>)}
Frame(a, s, stale) ==
    [atoms |-> a, selstr |-> s, stale |-> stale, overtaken |-> FALSE]
overtaken(calls) == [i \in DOMAIN calls |-> [calls[i] EXCEPT !.overtaken = TRUE]]

SessionInit ==
    /\ atoms \in SessionViews
    /\ selstr \in SessionSelStrs
    /\ Constructed

\* getBoolArray(a, s) runs up to its call of _evalAtoms
Enter(a, s) ==
    /\ Len(frames) < MaxFrames
    /\ frames' = Append(overtaken(frames),
                        Frame(a, s, engine._data # {} \/ engine._coords # <<>>))
    /\ engine' = entered(engine, a, s)
    /\ atoms' = a
    /\ selstr' = s
    /\ call' = Call("enter")
    /\ UNCHANGED <<ret, MACROS, SETTINGS, modeens>>

\* the call of frame i runs from there to its end
Return(i) ==
    LET f == frames[i]
    IN /\ ret' = getBoolArrayIn(working(engine), f.atoms, f.selstr, MACROS)
       /\ engine' = IF isSingleWord(f.selstr, MACROS) THEN engine
                    ELSE evaluated(engine, f.selstr)
       /\ frames' = without(frames, i - 1)
       /\ atoms' = f.atoms
       /\ selstr' = f.selstr
       /\ call' = MethodCall("getBoolArray", <<f>>)
       /\ UNCHANGED <<MACROS, SETTINGS, modeens>>

\* getIndices(a, s) for a single word: _evalAtoms and the answer of atoms
Indices(a, s) ==
    /\ isSingleWord(s, MACROS)
    /\ ret' = getIndices(a, s, MACROS)
    /\ engine' = _evalAtoms(engine, a)
    /\ atoms' = a
    /\ selstr' = s
    /\ call' = Call("getIndices")
    /\ frames' = overtaken(frames)
    /\ UNCHANGED <<MACROS, SETTINGS, modeens>>

SessionNext ==
    \/ \E a \in SessionViews, s \in SessionSelStrs : Enter(a, s)
    \/ \E a \in SessionViews, s \in SessionSelStrs : Indices(a, s)
    \/ \E i \in DOMAIN frames : Return(i)

SessionSpec == SessionInit /\ [][SessionNext]_vars

\* C26: a call that no other call has overtaken returns what a new instance
\* returns for its arguments, whatever the calls before it (aborted ones
\* included) have left in the instance.
C26_CallsAreIndependent ==
    (Returned("getBoolArray") /\ ~call.args[1].overtaken)
    => ret = getBoolArray(atoms, selstr, MACROS)
C26_Witness ==
    /\ Returned("getBoolArray")
    /\ ~call.args[1].overtaken
    /\ call.args[1].stale
    /\ ~isSingleWord(selstr, MACROS)
    /\ IsMask(ret)

\* C27: a call that enters while another call is in flight overwrites the
\* working state of the instance: the atoms and their number are those of
\* the entering call, the cache and the coordinates are empty.
C27_NestedCallOverwrites ==
    [][(call'.op = "enter" /\ frames' # <<>> /\ frames # <<>>)
       => /\ engine'._atoms = <<atoms'>>
          /\ engine'._n_atoms = <<numAtoms(atoms')>>
          /\ engine'._data = {}
          /\ engine'._coords = <<>>]_vars
\* the first call has gone on with the atoms of the second and returned a
\* result that is not the one of its own arguments
C27_Witness ==
    /\ Returned("getBoolArray")
    /\ call.args[1].overtaken
    /\ engine._atoms # <<atoms>>
    /\ ret # getBoolArray(atoms, selstr, MACROS)

\* C28: whatever the number of query atoms, a within or exwithin search
\* returns the mask the small-query strategy computes for the same view,
\* radius and query atoms.
C28_StrategiesAgree ==
    \A kw \in {"within", "exwithin"}, r \in Radii :
        (Returned("getBoolArray") /\ selstr = Within(kw, r, Water))
        => ret = withinSmall(Self(atoms), r, nonzero(MaskOf(Water).m),
                             CoordsOf, kw = "exwithin")

\* the labels of the ensemble go with its modesets one to one
Aligned(ens) == truthy(ens._labels) => Len(ens._labels.v) = numModeSets(ens)

\* C29: an addModeSet with labels that raises nothing, on an ensemble whose
\* labels go with its modesets, leaves the labels it found (empty ones when
\* there were none) followed by the labels supplied, one for every modeset.
C29_LabelsFollowModeSets ==
    [][(call'.op = "addModeSet" /\ call'.args[2].given /\ ret' = None
          /\ Aligned(modeens))
       => /\ Aligned(modeens')
          /\ modeens'._labels.v =
                (IF truthy(modeens._labels) THEN modeens._labels.v
                 ELSE repeat("", numModeSets(modeens))) \o call'.args[2].v]_vars

\* the entries of list at the positions that index does not name
Remaining(list, index) ==
    LET keep == SelectSeq([i \in 1..Len(list) |-> i - 1],
                          LAMBDA p : \A j \in DOMAIN index : index[j] # p)
    IN [i \in 1..Len(keep) |-> list[keep[i] + 1]]
Distinct(index) ==
    \A i \in DOMAIN index, j \in DOMAIN index : i # j => index[i] # index[j]

\* C30: delModeSet with distinct positions of the ensemble, in any order,
\* raises nothing and leaves the modesets, the labels and the weights of the
\* other positions, in their order.
C30_RemovesThosePositions ==
    [][(call'.op = "delModeSet" /\ Distinct(call'.args[1])
          /\ \A j \in DOMAIN call'.args[1] : call'.args[1][j] < numModeSets(modeens)
          /\ Aligned(modeens)
          /\ (~modeens._weights.none => Len(modeens._weights.v) = numModeSets(modeens)))
       => /\ ret' = None
          /\ modeens'._modesets = Remaining(modeens._modesets, call'.args[1])
          /\ modeens'._labels.v = Remaining(modeens._labels.v, call'.args[1])
          /\ modeens'._weights.v = Remaining(modeens._weights.v, call'.args[1])]_vars

====
